---- MODULE Spec2Model ----
(***************************************************************************)
(* RateX gateway: the rate-limit decision engine (utils/rateLimiters.ts),  *)
(* the proxy handler (routes/proxy.ts), the queue service                  *)
(* (utils/queueService.ts), the worker (worker/process.ts) and the worker  *)
(* manager (worker/manager.ts), the status route and the server ids taken  *)
(* at startup and given back at shutdown (index.ts), over a model of the   *)
(* Redis commands they issue.                                              *)
(*                                                                         *)
(* Time is in milliseconds, as Date.now() gives it.  Token counts are held *)
(* in thousandths of a token, so that (now - lastRefill) / 1000 *          *)
(* refillRate is exact for the integer rates of the model; IEEE rounding   *)
(* of the JavaScript doubles is not modelled.                              *)
(***************************************************************************)
EXTENDS Integers, Sequences, FiniteSets, Bags, TLC

(***************************************************************************)
(* Bounds of the model.                                                    *)
(***************************************************************************)
MaxRequests == 2        \* largest `requests` / `burst` of a config
MaxRate == 2            \* largest refillRate / leakRate of a config
TicksPerSec == 2        \* clock steps per second in the free arrival pattern
MaxTicks == 4           \* clock steps taken in the free arrival pattern
MaxDec == 5             \* decisions taken in the free arrival pattern
NumProcs == 2           \* handlers deciding concurrently
MaxConcDec == 3         \* decisions begun by the concurrent handlers
MaxConcTicks == 2       \* clock steps taken while handlers decide concurrently
PhaseDiv == 4           \* start phases tried for the uniform arrival pattern
MaxProxyReqs == 3       \* requests the proxy handler answers
MaxTickets == 2         \* tickets handed out
MaxEntries == 3         \* entries ever appended to the node's stream
MaxSpawns == 2          \* worker ids in use at a time
MaxWorkers == 2         \* config.maxWorkers (10 when not configured)
MaxQueuedRequests == 1  \* config.maxQueuedRequests (100 when not configured)
MaxStreamLength == 1    \* config.maxStreamLength (10000 when not configured)
MaxShutdowns == 1       \* nodes shut down
MaxRefused == 1         \* startups made after the counter has reached its ceiling
MaxOverlap == 2         \* ticks of the manager suspended at once
MaxCalls == 2           \* calls of checkLimit made one after the other
MaxLoopDec == 2         \* concurrent decisions followed to their return
MaxNodes == 3           \* node processes starting and stopping concurrently
MaxBoots == 4           \* server ids created by INCR server:counter

(***************************************************************************)
(* Program constants.                                                      *)
(***************************************************************************)
MsPerSec == 1000        \* this.config.window * 1000
BatchSize == 3          \* XREADGROUP ... COUNT 3
MAX_SERVER_ID == 100    \* WorkerManager.MAX_SERVER_ID
DefaultTimeout == 5000  \* config.clusterConfig?.timeout || 5000
DefaultMaxRetries == 3  \* config.clusterConfig?.maxRetries || 3

TickMs == MsPerSec \div TicksPerSec
HorizonMs == (MaxTicks + 2) * TickMs + 4 * MsPerSec

Min(a, b) == IF a <= b THEN a ELSE b
Max(a, b) == IF a >= b THEN a ELSE b
\* Math.ceil(a / b) for positive integers
Ceil(a, b) == (a + b - 1) \div b

Strategies ==
    {"fixed_window", "sliding_window", "token_bucket", "leaky_bucket", "sliding_log"}

\* IRateLimitConfig; 0 stands for an unset optional field
Cfg(s, w, n, b, rr, lr) ==
    [strategy |-> s, window |-> w, requests |-> n, burst |-> b,
     refillRate |-> rr, leakRate |-> lr]

Configs ==
    {Cfg("fixed_window", 1, n, 0, 0, 0) : n \in 1..MaxRequests}
    \cup {Cfg("sliding_window", 1, n, 0, 0, 0) : n \in 1..MaxRequests}
    \cup {Cfg("token_bucket", 1, MaxRequests, b, r, 0) :
            b \in 0..MaxRequests, r \in 0..MaxRate}
    \cup {Cfg("leaky_bucket", 1, n, 0, 0, r) : n \in 1..MaxRequests, r \in 0..MaxRate}
    \cup {Cfg("sliding_log", 1, n, 0, 0, 0) : n \in 1..MaxRequests}

WindowMs(c) == c.window * MsPerSec

(***************************************************************************)
(* The limiter's keys in the store, for one application.                   *)
(*   <<"fixed", w>>    {fixed:<app>}:<w>     integer counter               *)
(*   <<"sliding", w>>  {sliding:<app>}:<w>   integer counter               *)
(*   <<"bucket", 0>>   {bucket:<app>}        hash tokens / lastRefill      *)
(*   <<"leaky", 0>>    {leaky:<app>}         hash count / lastLeak         *)
(*   <<"log", 0>>      {log:<app>}           sorted set, member = score    *)
(* kv.ctr[k] = 0 and kv.hash[k].set = FALSE and kv.zlog = {} stand for an   *)
(* absent key; kv.exp[k] is the time the key expires at, -1 for none.      *)
(***************************************************************************)
\* the pauses of one call's retries, at the defaults
RetryHorizonMs == DefaultMaxRetries * DefaultTimeout
WinIdxs == (-1) .. (Max(HorizonMs, RetryHorizonMs) \div MsPerSec)
CtrKeys == {<<f, w>> : f \in {"fixed", "sliding"}, w \in WinIdxs}
HashKeys == {<<"bucket", 0>>, <<"leaky", 0>>}
LogKey == <<"log", 0>>
Keys == CtrKeys \cup HashKeys \cup {LogKey}

NoHash == [set |-> FALSE, a |-> 0, b |-> 0]

EmptyKv ==
    [ctr |-> [k \in CtrKeys |-> 0],
     hash |-> [k \in HashKeys |-> NoHash],
     zlog |-> {},
     exp |-> [k \in Keys |-> -1]]

\* The keys of `store` that have reached their expiry time at server time t.
Expired(store, t) == {k \in Keys : store.exp[k] # -1 /\ store.exp[k] <= t}

\* The store with every key that has expired by server time t deleted.
ExpireKeys(store, t) ==
    LET dead == Expired(store, t)
    IN [ctr |-> [k \in CtrKeys |-> IF k \in dead THEN 0 ELSE store.ctr[k]],
        hash |-> [k \in HashKeys |-> IF k \in dead THEN NoHash ELSE store.hash[k]],
        zlog |-> IF LogKey \in dead THEN {} ELSE store.zlog,
        exp |-> [k \in Keys |-> IF k \in dead THEN -1 ELSE store.exp[k]]]

\* EXPIRE key seconds, issued at server time t
SetExpire(store, k, seconds, t) ==
    [store EXCEPT !.exp[k] = t + seconds * MsPerSec]

(***************************************************************************)
(* The five strategies.  Each is split at its suspension points: the keys  *)
(* it WATCHes, the state read, the deny test on what was read, and the     *)
(* MULTI/EXEC batch that commits an admit.  `now` is the Date.now() taken  *)
(* once before the loop; t is the server's time when a batch runs.         *)
(* loc = [x, y] holds what a decision keeps between the read and the       *)
(* commit.                                                                 *)
(***************************************************************************)
Loc(x, y) == [x |-> x, y |-> y]

\* this.config.burst || this.config.requests
Burst(c) == IF c.burst # 0 THEN c.burst ELSE c.requests
\* this.config.refillRate || 1
RefillRate(c) == IF c.refillRate # 0 THEN c.refillRate ELSE 1
\* this.config.leakRate || 1
LeakRate(c) == IF c.leakRate # 0 THEN c.leakRate ELSE 1

\* ---- fixed window
fixedWindowKey(c, now) == <<"fixed", now \div WindowMs(c)>>

fixedWindowRead(c, store, now) == Loc(store.ctr[fixedWindowKey(c, now)], 0)

\* the deny test with a slip: one admit more than `requests`
fixedWindowDeny_Above(c, loc, now) == loc.x > c.requests

fixedWindowDeny(c, loc, now) == loc.x >= c.requests

fixedWindowTtl(c) == c.window

fixedWindowCommit(c, store, loc, now, t) ==
    LET k == fixedWindowKey(c, now)
    IN SetExpire([store EXCEPT !.ctr[k] = @ + 1], k, fixedWindowTtl(c), t)

\* ---- sliding window
slidingWindowCur(c, now) == <<"sliding", now \div WindowMs(c)>>

slidingWindowPrev(c, now) == <<"sliding", (now \div WindowMs(c)) - 1>>

slidingWindowRead(c, store, now) ==
    Loc(store.ctr[slidingWindowCur(c, now)], store.ctr[slidingWindowPrev(c, now)])

\* the deny test with a slip: the previous window is not weighed in
slidingWindowDeny_NoPrevious(c, loc, now) == loc.x >= c.requests

\* previousCount * (1 - windowElapsed) + currentCount >= requests, with
\* windowElapsed = (now % W) / W, multiplied through by W
slidingWindowDeny(c, loc, now) ==
    loc.y * (WindowMs(c) - (now % WindowMs(c))) + loc.x * WindowMs(c)
        >= c.requests * WindowMs(c)

\* the TTL with a slip: one window instead of two
slidingWindowTtl_OneWindow(c) == c.window

slidingWindowTtl(c) == c.window * 2

slidingWindowCommit(c, store, loc, now, t) ==
    LET k == slidingWindowCur(c, now)
    IN SetExpire([store EXCEPT !.ctr[k] = @ + 1], k, slidingWindowTtl(c), t)

\* ---- token bucket (tokens in thousandths)
BucketKey == <<"bucket", 0>>

\* the read with a slip: the refill is not clamped to `burst`
tokenBucketRead_NoClamp(c, store, now) ==
    LET h == store.hash[BucketKey]
        tokens == IF h.set THEN h.a ELSE Burst(c) * MsPerSec
        lastRefillTime == IF h.set THEN h.b ELSE now
    IN Loc(tokens + (now - lastRefillTime) * RefillRate(c), 0)

tokenBucketRead(c, store, now) ==
    LET h == store.hash[BucketKey]
        tokens == IF h.set THEN h.a ELSE Burst(c) * MsPerSec
        lastRefillTime == IF h.set THEN h.b ELSE now
        newTokens == (now - lastRefillTime) * RefillRate(c)
    IN Loc(Min(Burst(c) * MsPerSec, tokens + newTokens), 0)

tokenBucketDeny(c, loc, now) == loc.x < MsPerSec

tokenBucketTtl(c) == Ceil(Burst(c), RefillRate(c)) * 2

tokenBucketCommit(c, store, loc, now, t) ==
    SetExpire([store EXCEPT !.hash[BucketKey] =
                   [set |-> TRUE, a |-> loc.x - MsPerSec, b |-> now]],
              BucketKey, tokenBucketTtl(c), t)

\* ---- leaky bucket
LeakyKey == <<"leaky", 0>>

leakyBucketRead(c, store, now) ==
    LET h == store.hash[LeakyKey]
        count == IF h.set THEN h.a ELSE 0
        lastLeakTime == IF h.set THEN h.b ELSE now
        leaked == ((now - lastLeakTime) * LeakRate(c)) \div MsPerSec
    IN Loc(Max(0, count - leaked), 0)

\* the deny test with a slip: off by one
leakyBucketDeny_OffByOne(c, loc, now) == loc.x > c.requests

leakyBucketDeny(c, loc, now) == loc.x >= c.requests

leakyBucketTtl(c) == Ceil(c.requests, LeakRate(c)) * 2

leakyBucketCommit(c, store, loc, now, t) ==
    SetExpire([store EXCEPT !.hash[LeakyKey] =
                   [set |-> TRUE, a |-> loc.x + 1, b |-> now]],
              LeakyKey, leakyBucketTtl(c), t)

\* ---- sliding log
\* ZREMRANGEBYSCORE logKey 0 cutoff: the members it removes
\* the removal with a slip: nothing leaves the log
slidingLogStale_None(c, store, now) == {}

slidingLogStale(c, store, now) ==
    {m \in store.zlog : 0 <= m /\ m <= now - WindowMs(c)}

\* the store after the read batch (a sorted set left empty is deleted)
slidingLogTrim(c, store, now) ==
    LET left == store.zlog \ slidingLogStale(c, store, now)
    IN [store EXCEPT !.zlog = left,
                     !.exp[LogKey] = IF left = {} THEN -1 ELSE @]

\* ZCARD, in the same batch, after the removal
slidingLogRead(c, store, now) == Loc(Cardinality(slidingLogTrim(c, store, now).zlog), 0)

slidingLogDeny(c, loc, now) == loc.x >= c.requests

slidingLogTtl(c) == c.window

\* ZADD logKey now now: member and score are both `now`
slidingLogCommit(c, store, loc, now, t) ==
    SetExpire([store EXCEPT !.zlog = @ \cup {now}], LogKey, slidingLogTtl(c), t)

\* ---- checkLimit's switch over the strategy
WatchKeys(c, now) ==
    CASE c.strategy = "fixed_window" -> {fixedWindowKey(c, now)}
      [] c.strategy = "sliding_window" ->
            {slidingWindowCur(c, now), slidingWindowPrev(c, now)}
      [] c.strategy = "token_bucket" -> {BucketKey}
      [] c.strategy = "leaky_bucket" -> {LeakyKey}
      [] c.strategy = "sliding_log" -> {LogKey}

\* the store after the read (only the sliding log's read writes)
ReadStore(c, store, now) ==
    IF c.strategy = "sliding_log" THEN slidingLogTrim(c, store, now) ELSE store

ReadLoc(c, store, now) ==
    CASE c.strategy = "fixed_window" -> fixedWindowRead(c, store, now)
      [] c.strategy = "sliding_window" -> slidingWindowRead(c, store, now)
      [] c.strategy = "token_bucket" -> tokenBucketRead(c, store, now)
      [] c.strategy = "leaky_bucket" -> leakyBucketRead(c, store, now)
      [] c.strategy = "sliding_log" -> slidingLogRead(c, store, now)

Deny(c, loc, now) ==
    CASE c.strategy = "fixed_window" -> fixedWindowDeny(c, loc, now)
      [] c.strategy = "sliding_window" -> slidingWindowDeny(c, loc, now)
      [] c.strategy = "token_bucket" -> tokenBucketDeny(c, loc, now)
      [] c.strategy = "leaky_bucket" -> leakyBucketDeny(c, loc, now)
      [] c.strategy = "sliding_log" -> slidingLogDeny(c, loc, now)

Commit(c, store, loc, now, t) ==
    CASE c.strategy = "fixed_window" -> fixedWindowCommit(c, store, loc, now, t)
      [] c.strategy = "sliding_window" -> slidingWindowCommit(c, store, loc, now, t)
      [] c.strategy = "token_bucket" -> tokenBucketCommit(c, store, loc, now, t)
      [] c.strategy = "leaky_bucket" -> leakyBucketCommit(c, store, loc, now, t)
      [] c.strategy = "sliding_log" -> slidingLogCommit(c, store, loc, now, t)

\* One whole decision run with no other command in between, at time `now`.
Decide(c, store, now) ==
    LET s1 == ReadStore(c, store, now)
        loc == ReadLoc(c, store, now)
    IN IF Deny(c, loc, now)
       THEN [admit |-> FALSE, store |-> s1]
       ELSE [admit |-> TRUE, store |-> Commit(c, s1, loc, now, now)]


(***************************************************************************)
(* State.                                                                  *)
(***************************************************************************)
VARIABLES
    clock,      \* the time, ms
    kv,         \* the limiter's keys in the store
    cfg,        \* the application's rate-limit config
    decLog,     \* history: the decisions taken one at a time, [t, ok]
    pattern,    \* "free" | "uniform": how decisions arrive
    phase,      \* uniform pattern: the time of the first request
    connOf,     \* the store connection each concurrent decision runs on
    watch,      \* per connection: the keys it WATCHes
    dirty,      \* per connection: a watched key was modified since its WATCH
    pc,         \* per concurrent decision: where it stands in its strategy's loop
    pnow,       \* per concurrent decision: its Date.now()
    ploc,       \* per concurrent decision: what it read
    pver,       \* history: the version of its keys a decision read
    kver,       \* history: the number of writes made to each key
    started,    \* history: the concurrent decisions begun
    admitsAt,   \* history: the admits returned, by the decision's `now`
    staleCommit,\* history: a commit went through on keys changed since the read
    cause,      \* history: per connection, what made it dirty since its watches were last forgotten
    retried,    \* history: per concurrent decision, its commit was refused and it went round again
    queue,      \* queue:<appId>, the sorted set the queue service adds to
    loops,      \* the queue service's processing loops that were started
    qsHeld,     \* per processing loop: the record it read with ZRANGE (0: none)
    nextTicket, \* the next ticket id
    issued,     \* history: the tickets handed out
    appended,   \* history: the tickets whose record was appended to the stream
    handled,    \* history: the number of proxy requests answered
    lastResp,   \* history: the last answer of the proxy handler
    stream,     \* stream:<nodeId>, the entries in id order
    streamSeq,  \* the id of the last entry appended to the stream
    lastDelivered, \* group:<nodeId>: the last id delivered to a consumer
    pel,        \* group:<nodeId>: the pending entries, <<id, consumer>>
    acked,      \* history: the entries the workers acknowledged, [id, ticket]
    tasks,      \* the messages the workers are processing
    wphase,     \* per worker id: "new" (free) | "read" | "batch" | "end"
    wterm,      \* per worker: isShuttingDown
    wmap,       \* the manager's map of workers, in insertion order
    retiring,   \* the workers whose consumer removeWorker is about to delete
    mgr,        \* the manager's tick in progress: what it read from the store
    response,   \* response:<ticketId>
    firstOutcome, \* history: the first value written under response:<ticketId>
    fetches,    \* history: per ticket, the upstream calls the workers made (2: more than one)
    maxWorkers, \* this.maxWorkers, the manager's config
    ticks,      \* the manager's ticks suspended on XLEN: the this.workers.size each read
    shut,       \* WorkerManager.shutdown: whether it ran, and what it did to the workers
    enqCfg,     \* history: per ticket, the app's config when its record was enqueued
    exec,       \* executeWithRetry: the call of checkLimit in progress
    apps,       \* app:<id>: the rateLimit field stored for each application
    appResp,    \* history: the answer to the last POST /apps or PUT /apps/:appId
    boot,       \* per node process: where it stands between startServer and process.exit
    counter,    \* server:counter
    pool,       \* server:pool, the set of server ids given back
    held,       \* the server ids of the running nodes
    gone,       \* history: the server ids of the nodes that completed their shutdown
    everIssued, \* history: the server ids ever returned by getAvailableServerId
    lastStart   \* history: the last startup's call of getAvailableServerId

limVars == <<clock, kv, cfg>>
seqVars == <<decLog, pattern, phase>>
concVars == <<connOf, watch, dirty, pc, pnow, ploc, pver, kver, started, admitsAt, staleCommit,
              cause, retried>>
qsVars == <<queue, loops, qsHeld, nextTicket, issued, handled, lastResp>>
streamVars == <<appended, stream, streamSeq, lastDelivered, pel, acked>>
workerVars == <<tasks, wphase, wterm, wmap, retiring, mgr>>
outVars == <<response, firstOutcome, fetches>>
srvVars == <<counter, pool, held, gone, everIssued, lastStart>>
mgrVars == <<maxWorkers, ticks, shut>>
nodeVars == <<qsVars, streamVars, workerVars, outVars, srvVars, mgrVars, enqCfg>>
retryVars == <<exec>>
ctlVars == <<apps, appResp, boot>>
vars == <<limVars, seqVars, concVars, nodeVars, retryVars, ctlVars>>

(***************************************************************************)
(* The node at rest: the manager has started (the group exists on an empty *)
(* stream), no worker is forked yet, nothing is queued.                    *)
(***************************************************************************)
Tickets == 1..MaxTickets
WorkerIds == 1..MaxSpawns
NoOutcome == [status |-> "pending", code |-> 0]
NoResp == [known |-> FALSE, allowed |-> FALSE, status |-> 0, body |-> "none",
           ticket |-> 0, fresh |-> FALSE, enq |-> 0, fwd |-> 0, up |-> 0,
           limited |-> FALSE, wrote |-> FALSE]

\* server:<n> is written n
ServerIds == 1..(MAX_SERVER_ID + MaxRefused)
NoStart == [ok |-> FALSE, id |-> 0, error |-> "none", pooled |-> FALSE,
            full |-> FALSE, freed |-> FALSE]

MgrIdle == [pc |-> "idle", minid |-> 0, len |-> 0, workers |-> 0]

\* the manager's ticks that may be suspended at once; a slot with no tick
Slots == 1..MaxOverlap
NoTick == -1

\* WorkerManager.shutdown has not run
NoShut == [begun |-> FALSE, workers |-> {}, signalled |-> {}, deleted |-> {}]

\* no config on record
NoConfig == Cfg("none", 0, 0, 0, 0, 0)

\* no call of checkLimit in progress
NoCluster == [maxRetries |-> 0, timeout |-> 0]
ExecIdle ==
    [pc |-> "idle", cluster |-> NoCluster, maxRetries |-> 0, timeout |-> 0, calls |-> 0,
     retries |-> 0, attempts |-> 0, waited |-> 0, sent |-> 0, result |-> "none"]

\* the application ids of the store, the value of apps for an id with no
\* app:<id> hash, and no answer from the apps routes yet
AppIds == {"a1", "a2"}
NoApp == Cfg("absent", 0, 0, 0, 0, 0)
NoAppResp == [op |-> "none", id |-> "none", body |-> NoApp, status |-> 0, wrote |-> FALSE]

\* the node processes, and a process that is not running
Nodes == 1..MaxNodes
NodeDown == [st |-> "down", id |-> 0]

NodeIdle ==
    /\ apps = [a \in AppIds |-> NoApp]
    /\ appResp = NoAppResp
    /\ boot = [n \in Nodes |-> NodeDown]
    /\ acked = {}
    /\ mgr = MgrIdle
    /\ counter = 0
    /\ pool = {}
    /\ held = {}
    /\ gone = {}
    /\ everIssued = {}
    /\ lastStart = NoStart
    /\ queue = {}
    /\ loops = {}
    /\ qsHeld = [l \in Tickets |-> 0]
    /\ nextTicket = 1
    /\ issued = {}
    /\ appended = {}
    /\ handled = 0
    /\ lastResp = NoResp
    /\ stream = <<>>
    /\ streamSeq = 0
    /\ lastDelivered = 0
    /\ pel = {}
    /\ tasks = {}
    /\ wphase = [w \in WorkerIds |-> "new"]
    /\ wterm = [w \in WorkerIds |-> FALSE]
    /\ wmap = <<>>
    /\ retiring = {}
    /\ response = [t \in Tickets |-> NoOutcome]
    /\ firstOutcome = [t \in Tickets |-> NoOutcome]
    /\ fetches = [t \in Tickets |-> 0]
    /\ ticks = [k \in Slots |-> NoTick]
    /\ shut = NoShut
    /\ enqCfg = [t \in Tickets |-> NoConfig]


(***************************************************************************)
(* Concurrent decisions.  Each handler runs its strategy's loop command by *)
(* command on a store connection; handlers of one node share the node's    *)
(* connection (req.app.get("redis")), handlers of different nodes have     *)
(* their own.  The store keeps WATCH state per connection: WATCH adds      *)
(* keys, a write to a watched key by any other batch marks the connection  *)
(* dirty, EXEC fails on a dirty connection, and EXEC and UNWATCH forget    *)
(* every watch of the connection.  A MULTI ... EXEC batch is sent as one   *)
(* pipeline and runs as one step.                                          *)
(***************************************************************************)
Procs == 1..NumProcs
Conns == Procs
ConcTimes == {i * TickMs : i \in 0..MaxConcTicks}

\* one config per strategy and cap, optional fields unset
ConcConfigs == {c \in Configs : c.burst = 0 /\ c.refillRate = 0 /\ c.leakRate = 0}

ConcIdle ==
    /\ connOf = [p \in Procs |-> 1]
    /\ watch = [c \in Conns |-> {}]
    /\ dirty = [c \in Conns |-> FALSE]
    /\ pc = [p \in Procs |-> "idle"]
    /\ pnow = [p \in Procs |-> 0]
    /\ ploc = [p \in Procs |-> Loc(0, 0)]
    /\ pver = [p \in Procs |-> 0]
    /\ kver = [k \in Keys |-> 0]
    /\ started = 0
    /\ admitsAt = [t \in ConcTimes |-> 0]
    /\ staleCommit = FALSE
    /\ cause = [c \in Conns |-> {}]
    /\ retried = [p \in Procs |-> FALSE]

RECURSIVE SumVer(_, _)
SumVer(ver, ks) ==
    IF ks = {} THEN 0
    ELSE LET k == CHOOSE x \in ks : TRUE IN ver[k] + SumVer(ver, ks \ {k})

\* the keys on which two stores differ
Changed(s1, s2) ==
    {k \in CtrKeys : s1.ctr[k] # s2.ctr[k]}
    \cup {k \in HashKeys : s1.hash[k] # s2.hash[k]}
    \cup (IF s1.zlog # s2.zlog THEN {LogKey} ELSE {})

\* a batch on connection c wrote the keys ks: the other connections watching
\* one of them are dirty; c's own watches are forgotten, c is clean
AfterExec(c, ks) ==
    /\ watch' = [watch EXCEPT ![c] = {}]
    /\ dirty' = [d \in Conns |->
                    IF d = c THEN FALSE ELSE dirty[d] \/ (watch[d] \cap ks # {})]
    /\ kver' = [k \in Keys |-> IF k \in ks THEN kver[k] + 1 ELSE kver[k]]
    /\ cause' = [d \in Conns |->
                    IF d = c THEN {}
                    ELSE IF watch[d] \cap ks # {} THEN cause[d] \cup {"write"} ELSE cause[d]]

InitConc ==
    /\ NodeIdle
    /\ exec = ExecIdle
    /\ maxWorkers = MaxWorkers
    /\ kv = EmptyKv
    /\ decLog = <<>>
    /\ pattern = "concurrent"
    /\ phase = 0
    /\ clock = 0
    /\ cfg \in ConcConfigs
    /\ connOf \in {f \in [Procs -> Conns] : \A p \in Procs : f[p] <= p}
    /\ watch = [c \in Conns |-> {}]
    /\ dirty = [c \in Conns |-> FALSE]
    /\ pc = [p \in Procs |-> "idle"]
    /\ pnow = [p \in Procs |-> 0]
    /\ ploc = [p \in Procs |-> Loc(0, 0)]
    /\ pver = [p \in Procs |-> 0]
    /\ kver = [k \in Keys |-> 0]
    /\ started = 0
    /\ admitsAt = [t \in ConcTimes |-> 0]
    /\ staleCommit = FALSE
    /\ cause = [c \in Conns |-> {}]
    /\ retried = [p \in Procs |-> FALSE]

\* const now = Date.now(), and the keys computed from it
Begin(p) ==
    /\ pc[p] = "idle"
    /\ started < MaxConcDec
    /\ started' = started + 1
    /\ pnow' = [pnow EXCEPT ![p] = clock]
    /\ pc' = [pc EXCEPT ![p] = "watch"]
    /\ retried' = [retried EXCEPT ![p] = FALSE]
    /\ UNCHANGED <<nodeVars, limVars, seqVars, connOf, watch, dirty, ploc, pver, kver,
                   admitsAt, staleCommit, cause, retryVars, ctlVars>>

\* await this.redis.watch(...)
Watch(p) ==
    /\ pc[p] = "watch"
    /\ watch' = [watch EXCEPT ![connOf[p]] = @ \cup WatchKeys(cfg, pnow[p])]
    /\ pc' = [pc EXCEPT ![p] = "read"]
    /\ UNCHANGED <<nodeVars, limVars, seqVars, connOf, dirty, pnow, ploc, pver, kver, started,
                   admitsAt, staleCommit, cause, retried, retryVars, ctlVars>>

\* fixedWindow: await this.redis.get(windowKey), and the test on the count
ReadGet(p) ==
    /\ pc[p] = "read"
    /\ cfg.strategy = "fixed_window"
    /\ LET loc == ReadLoc(cfg, kv, pnow[p])
       IN /\ ploc' = [ploc EXCEPT ![p] = loc]
          /\ pc' = [pc EXCEPT ![p] =
                       IF Deny(cfg, loc, pnow[p]) THEN "unwatch" ELSE "commit"]
    /\ pver' = [pver EXCEPT ![p] = SumVer(kver, WatchKeys(cfg, pnow[p]))]
    /\ UNCHANGED <<nodeVars, limVars, seqVars, connOf, watch, dirty, pnow, kver, started,
                   admitsAt, staleCommit, cause, retried, retryVars, ctlVars>>

\* the other strategies read in a MULTI ... EXEC batch: null on a dirty
\* connection (`if (!result) continue`), else the values and the test on them
ReadExec(p) ==
    /\ pc[p] = "read"
    /\ cfg.strategy # "fixed_window"
    /\ IF dirty[connOf[p]]
       THEN /\ AfterExec(connOf[p], {})
            /\ pc' = [pc EXCEPT ![p] = "watch"]
            /\ UNCHANGED <<kv, ploc, pver>>
       ELSE LET s1 == ReadStore(cfg, kv, pnow[p])
                loc == ReadLoc(cfg, kv, pnow[p])
            IN /\ kv' = s1
               /\ AfterExec(connOf[p], Changed(kv, s1))
               /\ ploc' = [ploc EXCEPT ![p] = loc]
               /\ pver' = [pver EXCEPT ![p] =
                              SumVer(kver', WatchKeys(cfg, pnow[p]))]
               /\ pc' = [pc EXCEPT ![p] =
                            IF Deny(cfg, loc, pnow[p]) THEN "unwatch" ELSE "commit"]
    /\ UNCHANGED <<nodeVars, clock, cfg, seqVars, connOf, pnow, started, admitsAt, staleCommit,
                   retried, retryVars, ctlVars>>

\* await this.redis.unwatch(); return false
Unwatch(p) ==
    /\ pc[p] = "unwatch"
    /\ watch' = [watch EXCEPT ![connOf[p]] = {}]
    /\ dirty' = [dirty EXCEPT ![connOf[p]] = FALSE]
    /\ cause' = [cause EXCEPT ![connOf[p]] = {}]
    /\ pc' = [pc EXCEPT ![p] = "idle"]
    /\ UNCHANGED <<nodeVars, limVars, seqVars, connOf, pnow, ploc, pver, kver, started,
                   admitsAt, staleCommit, retried, retryVars, ctlVars>>

\* `if (execResult) return true` with a slip: the loop always goes round
commitDone_Never(execResult) == FALSE

\* if (execResult) { return true; }  // else the loop goes round
commitDone(execResult) == execResult

\* the committing MULTI ... EXEC batch: null on a dirty connection (retry),
\* else the writes are made and the decision returns true
CommitExec(p) ==
    /\ pc[p] = "commit"
    /\ IF dirty[connOf[p]]
       THEN /\ AfterExec(connOf[p], {})
            /\ UNCHANGED <<kv, staleCommit>>
       ELSE /\ kv' = Commit(cfg, kv, ploc[p], pnow[p], clock)
            /\ AfterExec(connOf[p], WatchKeys(cfg, pnow[p]) \cap Changed(kv, kv'))
            /\ staleCommit' =
                  (staleCommit \/ SumVer(kver, WatchKeys(cfg, pnow[p])) # pver[p])
    /\ IF commitDone(~dirty[connOf[p]])
       THEN /\ admitsAt' = [admitsAt EXCEPT ![pnow[p]] = @ + 1]
            /\ pc' = [pc EXCEPT ![p] = "idle"]
            /\ UNCHANGED retried
       ELSE /\ pc' = [pc EXCEPT ![p] = "watch"]
            /\ retried' = [retried EXCEPT ![p] = TRUE]
            /\ UNCHANGED admitsAt
    /\ UNCHANGED <<nodeVars, clock, cfg, seqVars, connOf, pnow, ploc, pver, started,
                   retryVars, ctlVars>>

\* time passes; a key reaching its TTL is deleted, which counts as a
\* modification for the connections watching it
ConcTick ==
    /\ clock < MaxConcTicks * TickMs
    /\ clock' = clock + TickMs
    /\ kv' = ExpireKeys(kv, clock')
    /\ dirty' = [d \in Conns |-> dirty[d] \/ (watch[d] \cap Changed(kv, kv') # {})]
    /\ cause' = [d \in Conns |->
                    IF watch[d] \cap Changed(kv, kv') # {}
                    THEN cause[d] \cup {"expire"} ELSE cause[d]]
    /\ UNCHANGED <<nodeVars, cfg, seqVars, connOf, watch, pc, pnow, ploc, pver, kver, started,
                   admitsAt, staleCommit, retried, retryVars, ctlVars>>

NextConc ==
    \/ \E p \in Procs : Begin(p)
    \/ \E p \in Procs : Watch(p)
    \/ \E p \in Procs : ReadGet(p)
    \/ \E p \in Procs : ReadExec(p)
    \/ \E p \in Procs : Unwatch(p)
    \/ \E p \in Procs : CommitExec(p)
    \/ ConcTick

SpecConc == InitConc /\ [][NextConc]_vars

(***************************************************************************)
(* C1  Fixed-window cap: with fixed_window, in every boundary-aligned      *)
(* window the number of decisions that return admit is at most `requests`, *)
(* whatever the number of concurrent decisions, on one node's shared       *)
(* connection or on different nodes.                                       *)
(***************************************************************************)
AdmitsInWindow(w) ==
    Cardinality({<<t, n>> \in ConcTimes \X (1..MaxConcDec) :
                    t \div WindowMs(cfg) = w /\ n <= admitsAt[t]})

C1_FixedWindowCap ==
    cfg.strategy = "fixed_window" =>
        \A w \in WinIdxs : AdmitsInWindow(w) <= cfg.requests

(***************************************************************************)
(* C2  No lost update: in every strategy, a commit whose keys another      *)
(* writer changed between the decision's read and the commit aborts.       *)
(***************************************************************************)
C2_NoLostUpdate == ~staleCommit

(***************************************************************************)
(* Decisions taken one at a time (no two overlap), on an empty store.      *)
(*   free:     any number of decisions at each clock step;                 *)
(*   uniform:  sliding_window, 10*N requests spread uniformly over 2W,     *)
(*             the first at `phase` within its window;                     *)
(*   scenario: the requests of a test scenario, at the scenario's times.   *)
(***************************************************************************)
UniformConfigs ==
    {Cfg("sliding_window", 1, n, 0, 0, 0) :
        n \in {m \in 1..(2 * MaxRequests) : MsPerSec % (5 * m) = 0}}

Phases == {p * (MsPerSec \div PhaseDiv) : p \in 0..(PhaseDiv - 1)}

\* "10*N requests spread uniformly over 2W"
UniformCount(c) == 10 * c.requests
UniformGap(c) == (2 * WindowMs(c)) \div UniformCount(c)

\* S1: fixed_window, window 1, requests 3;  S3: sliding_log, window 2, requests 2
ScenarioConfigs ==
    {Cfg("fixed_window", 1, 3, 0, 0, 0), Cfg("sliding_log", 2, 2, 0, 0, 0)}

\* S1: five requests within the second that starts at 0, the first at p, and
\*     one request a second after the first
ScheduleS1(p) ==
    [i \in 1..5 |-> p + (i - 1) * ((MsPerSec - p) \div 5)] \o <<p + MsPerSec>>

\* S3: one request at each of 0, 0.5, 1.0, 1.5 s and two requests at 2.1 s
ScheduleS3 == <<0, 500, 1000, 1500, 2100, 2100>>

Schedule(c, p) == IF c.strategy = "fixed_window" THEN ScheduleS1(p) ELSE ScheduleS3

InitSeq ==
    /\ ConcIdle
    /\ NodeIdle
    /\ exec = ExecIdle
    /\ maxWorkers = MaxWorkers
    /\ kv = EmptyKv
    /\ decLog = <<>>
    /\ \/ /\ pattern = "free"
          /\ cfg \in Configs
          /\ clock = 0
          /\ phase = 0
       \/ /\ pattern = "uniform"
          /\ cfg \in UniformConfigs
          /\ phase \in Phases
          /\ clock = phase
       \/ /\ pattern = "scenario"
          /\ cfg \in ScenarioConfigs
          /\ phase \in IF cfg.strategy = "fixed_window" THEN Phases ELSE {0}
          /\ clock = 0

\* time passes; keys reaching their TTL are deleted
Tick ==
    /\ pattern \in {"free", "node"}
    /\ clock < MaxTicks * TickMs
    /\ clock' = clock + TickMs
    /\ kv' = ExpireKeys(kv, clock')
    /\ UNCHANGED <<nodeVars, cfg, seqVars, concVars, retryVars, ctlVars>>

\* checkLimit(key), run to its result
SeqDecide ==
    /\ pattern = "free"
    /\ Len(decLog) < MaxDec
    /\ LET r == Decide(cfg, kv, clock)
       IN /\ kv' = r.store
          /\ decLog' = Append(decLog, [t |-> clock, ok |-> r.admit])
    /\ UNCHANGED <<nodeVars, clock, cfg, pattern, phase, concVars, retryVars, ctlVars>>

\* the next request of the uniform pattern arrives and is decided
UniformRequest ==
    /\ pattern = "uniform"
    /\ Len(decLog) < UniformCount(cfg)
    /\ LET t == phase + Len(decLog) * UniformGap(cfg)
           r == Decide(cfg, ExpireKeys(kv, t), t)
       IN /\ clock' = t
          /\ kv' = r.store
          /\ decLog' = Append(decLog, [t |-> t, ok |-> r.admit])
    /\ UNCHANGED <<nodeVars, cfg, pattern, phase, concVars, retryVars, ctlVars>>

\* the next request of the scenario arrives and is decided
ScenarioRequest ==
    /\ pattern = "scenario"
    /\ Len(decLog) < Len(Schedule(cfg, phase))
    /\ LET t == Schedule(cfg, phase)[Len(decLog) + 1]
           r == Decide(cfg, ExpireKeys(kv, t), t)
       IN /\ clock' = t
          /\ kv' = r.store
          /\ decLog' = Append(decLog, [t |-> t, ok |-> r.admit])
    /\ UNCHANGED <<nodeVars, cfg, pattern, phase, concVars, retryVars, ctlVars>>

NextSeq == Tick \/ SeqDecide \/ UniformRequest \/ ScenarioRequest

SpecSeq == InitSeq /\ [][NextSeq]_vars

(***************************************************************************)
(* Reading the history.                                                    *)
(***************************************************************************)
Admits == {i \in DOMAIN decLog : decLog[i].ok}

\* admits among decisions i..j
AdmitsBetween(i, j) == Cardinality({n \in Admits : i <= n /\ n <= j})

\* admits at times in [lo, hi)
AdmitsIn(lo, hi) == Cardinality({n \in Admits : lo <= decLog[n].t /\ decLog[n].t < hi})

\* admits before decision i at times in [lo, hi)
AdmitsBefore(i, lo, hi) ==
    Cardinality({n \in Admits : n < i /\ lo <= decLog[n].t /\ decLog[n].t < hi})

\* the most admits in any W-length interval (one starting at an admit is largest)
MaxPerWindow ==
    LET counts == {AdmitsIn(decLog[i].t, decLog[i].t + WindowMs(cfg)) : i \in Admits}
    IN IF counts = {} THEN 0 ELSE CHOOSE m \in counts : \A n \in counts : n <= m


(***************************************************************************)
(* C3  Sliding-log exactness: with sliding_log, in every W-length interval *)
(* the number of admits is at most `requests`, for every arrival pattern,  *)
(* several decisions at one millisecond included.                          *)
(* Violated: ZADD's member is `now`, so the admits of one millisecond are  *)
(* one member of the log.                                                  *)
(***************************************************************************)
C3_SlidingLogExact ==
    cfg.strategy = "sliding_log" => MaxPerWindow <= cfg.requests

(***************************************************************************)
(* C4  Token-bucket burst.  A history of token_bucket decisions on an      *)
(* empty store, taken at one timestamp T1 and then at one later timestamp: *)
(* at T1 exactly the first `burst` admit; if the bucket was emptied at T1, *)
(* then after k / refillRate seconds exactly floor(k) of the following     *)
(* decisions admit (the claim as made), or min(floor(k), burst) of them    *)
(* (the claim as amended).                                                 *)
(***************************************************************************)
Times == {decLog[i].t : i \in DOMAIN decLog}
T1 == decLog[1].t
Phase1 == {i \in DOMAIN decLog : decLog[i].t = T1}
Phase2 == DOMAIN decLog \ Phase1
N1 == Cardinality(Phase1)
BurstCase ==
    /\ pattern = "free"
    /\ cfg.strategy = "token_bucket"
    /\ decLog # <<>>
    /\ Cardinality(Times) <= 2
\* floor(k) for the idle time before decision i, k = idle seconds * refillRate
Refilled(i) == ((decLog[i].t - T1) * RefillRate(cfg)) \div MsPerSec

C4_FirstBurstAdmit ==
    BurstCase => \A i \in Phase1 : decLog[i].ok <=> (i <= Burst(cfg))

C4_TokenBucketBurst_Original ==
    /\ C4_FirstBurstAdmit
    /\ (BurstCase /\ N1 >= Burst(cfg)) =>
          \A i \in Phase2 : decLog[i].ok <=> (i - N1 <= Refilled(i))

C4_TokenBucketBurst ==
    /\ C4_FirstBurstAdmit
    /\ (BurstCase /\ N1 >= Burst(cfg)) =>
          \A i \in Phase2 : decLog[i].ok <=> (i - N1 <= Min(Refilled(i), Burst(cfg)))

\* burst admits and a deny, then an idle time, then floor(k) >= 1 admits and a deny
C4_Witness ==
    /\ BurstCase
    /\ N1 > Burst(cfg)
    /\ \E i \in Phase2 : ~decLog[i].ok /\ Refilled(i) >= 1 /\ i - N1 = Refilled(i) + 1

(***************************************************************************)
(* C5  Leaky-bucket smoothing.  As made: over every interval of at least   *)
(* requests / leakRate seconds, admits / length <= leakRate.  For admits   *)
(* i..j spanning `span` ms the shortest such interval holding them is      *)
(* max(requests / leakRate, just over span).                               *)
(* As amended: over every interval of T seconds the number of admits is at *)
(* most requests + leakRate * T.                                           *)
(***************************************************************************)
Span(i, j) == decLog[j].t - decLog[i].t

WinStart(t) == (t \div WindowMs(cfg)) * WindowMs(cfg)

C6_DenyRule ==
    cfg.strategy = "sliding_window" =>
        \A i \in DOMAIN decLog :
            LET t == decLog[i].t
                previous == AdmitsBefore(i, WinStart(t) - WindowMs(cfg), WinStart(t))
                current == AdmitsBefore(i, WinStart(t), WinStart(t) + WindowMs(cfg))
            IN (~decLog[i].ok) <=>
                  (previous * (WindowMs(cfg) - (t % WindowMs(cfg))) + current * WindowMs(cfg)
                      >= cfg.requests * WindowMs(cfg))

WindowStart(t) == (t \div WindowMs(cfg)) * WindowMs(cfg)

C17_FixedWindowRule ==
    cfg.strategy = "fixed_window" =>
        /\ \A i \in DOMAIN decLog :
              decLog[i].ok <=>
                  AdmitsBefore(i, WindowStart(decLog[i].t),
                               WindowStart(decLog[i].t) + WindowMs(cfg)) < cfg.requests
        /\ pattern = "scenario" =>
              \A i \in DOMAIN decLog :
                  decLog[i].ok = <<TRUE, TRUE, TRUE, FALSE, FALSE, TRUE>>[i]

C17_Witness ==
    /\ pattern = "scenario"
    /\ cfg.strategy = "fixed_window"
    /\ phase # 0
    /\ Len(decLog) = 6
    /\ ~decLog[5].ok
    /\ decLog[6].ok

(***************************************************************************)
(* C18  Sliding-log scenario S3: sliding_log, window 2 s, requests 2; one  *)
(* request at each of 0, 0.5, 1.0 and 1.5 s gives admit, admit, deny,      *)
(* deny, and of the two requests at 2.1 s both admit (the claim as made),  *)
(* or the first admits and the second is denied (as amended): at 2.1 s     *)
(* the admit of 0.5 s is still inside the window.                          *)
(***************************************************************************)
ScenarioS3 == pattern = "scenario" /\ cfg.strategy = "sliding_log"

C18_SlidingLogS3_Original ==
    ScenarioS3 =>
        \A i \in DOMAIN decLog :
            decLog[i].ok = <<TRUE, TRUE, FALSE, FALSE, TRUE, TRUE>>[i]

C18_SlidingLogS3 ==
    ScenarioS3 =>
        \A i \in DOMAIN decLog :
            decLog[i].ok = <<TRUE, TRUE, FALSE, FALSE, TRUE, FALSE>>[i]

C18_Witness ==
    /\ ScenarioS3
    /\ Len(decLog) = 6
    /\ decLog[5].ok
    /\ ~decLog[6].ok
    /\ kv.zlog = {500, 2100}

(***************************************************************************)
(* The node: the proxy handler and the queue service it calls, the worker  *)
(* manager and the workers it forks, over the store's sorted set, stream   *)
(* and consumer-group commands.  The limiter's decision depends on the     *)
(* store and the time (SpecSeq, SpecConc); here a decision may come out    *)
(* either way.  Sleeps (setTimeout) only delay a step and are not          *)
(* modelled; the 48 h TTL of an outcome lies beyond every run.             *)
(***************************************************************************)
Apps == {"app"}                      \* app:<id> exists
ReqApps == Apps \cup {"ghost"}       \* the app ids requests name
UpstreamCodes == {200, 429}          \* the statuses the upstream answers with
UpstreamResults == UpstreamCodes \cup {0}   \* 0: fetch throws
Completed(code) == [status |-> "completed", code |-> code]
Failed == [status |-> "failed", code |-> 0]

\* QueueService.enqueueRequest: ZADD queue:<appId> <now> <record>; the
\* instance is new for the request, so its processing loop starts
enqueueRequest(q, app, tk) ==
    [queue |-> q \cup {[ticket |-> tk, app |-> app]}, id |-> tk, loop |-> {tk}]

Answer(q, lp, status, body, tk, fwd, up) ==
    [queue |-> q, loop |-> lp, status |-> status, body |-> body, ticket |-> tk,
     fwd |-> fwd, up |-> up]

\* throw new AppError(404, "Application not found")
proxyNotFound(q) == Answer(q, {}, 404, "error", 0, 0, 0)

\* the deny branch refusing the request instead of enqueueing it
proxyDenied_Refuse(q, app, tk) == Answer(q, {}, 429, "error", 0, 0, 0)

\* the deny branch: enqueue, answer 202 "queued" with the ticket
proxyDenied(q, app, tk) ==
    LET e == enqueueRequest(q, app, tk)
    IN Answer(e.queue, e.loop, 202, "queued", e.id, 0, 0)

\* the admit branch: fetch, relay the upstream's status; a fetch that throws
\* ends in the catch as a 500
proxyAdmitted(q, code) ==
    IF code = 0 THEN Answer(q, {}, 500, "error", 0, 1, 0)
    ELSE Answer(q, {}, code, "relayed", 0, 1, code)

\* the lookup finding a record for every app id
lookupApp_Any(app) == TRUE

\* hgetall app:<appId> returns a non-empty hash
lookupApp(app) == app \in Apps

\* router.use("/:appId/*"): one request, from lookup to answer; the limiter
\* is built and consulted (checkLimit, run to its result) after the lookup
ProxyRequest ==
    /\ handled < MaxProxyReqs
    /\ \E app \in ReqApps, code \in UpstreamResults :
         LET found == lookupApp(app)
             d == Decide(cfg, kv, clock)
             allowed == found /\ d.admit
             r == IF ~found THEN proxyNotFound(queue)
                  ELSE IF ~allowed THEN proxyDenied(queue, app, nextTicket)
                  ELSE proxyAdmitted(queue, code)
         IN /\ r.ticket # 0 => nextTicket <= MaxTickets
            /\ kv' = IF found THEN d.store ELSE kv
            /\ queue' = r.queue
            /\ loops' = loops \cup r.loop
            /\ nextTicket' = IF r.ticket # 0 THEN nextTicket + 1 ELSE nextTicket
            /\ issued' = IF r.ticket # 0 THEN issued \cup {r.ticket} ELSE issued
            /\ handled' = handled + 1
            /\ lastResp' = [known |-> app \in Apps,
                            allowed |-> allowed,
                            status |-> r.status, body |-> r.body,
                            ticket |-> r.ticket,
                            fresh |-> r.ticket \notin issued,
                            enq |-> Cardinality(r.queue) - Cardinality(queue),
                            fwd |-> r.fwd, up |-> r.up,
                            limited |-> found,
                            wrote |-> found /\ d.store # kv]
    /\ UNCHANGED <<qsHeld, clock, cfg, seqVars, concVars, srvVars, mgrVars, enqCfg, streamVars, workerVars, outVars, retryVars, ctlVars>>

\* ZRANGE key 0 0: the record with the lowest score (the oldest)
Oldest(q) == CHOOSE r \in q : \A o \in q : r.ticket <= o.ticket

\* QueueService.startProcessing, first half of an iteration: KEYS queue:*,
\* ZRANGE of the oldest record
QsPick(l) ==
    /\ l \in loops
    /\ qsHeld[l] = 0
    /\ queue # {}
    /\ qsHeld' = [qsHeld EXCEPT ![l] = Oldest(queue).ticket]
    /\ UNCHANGED <<queue, loops, nextTicket, issued, handled, lastResp,
                   limVars, seqVars, concVars, srvVars, mgrVars, enqCfg, streamVars, workerVars, outVars, retryVars, ctlVars>>

\* QueueService.startProcessing, second half: the limiter is built with
\* createRateLimiter, which rateLimiters.ts does not export, so the call may
\* throw; it may deny (wait 1 s); it may admit: ZREM, then
\* QueueService.processRequest fetches the upstream and records nothing
QsProcess(l) ==
    /\ l \in loops
    /\ qsHeld[l] # 0
    /\ \E res \in {"throw", "deny", "allow"} :
         queue' = IF res = "allow" THEN {r \in queue : r.ticket # qsHeld[l]}
                  ELSE queue
    /\ qsHeld' = [qsHeld EXCEPT ![l] = 0]
    /\ UNCHANGED <<loops, nextTicket, issued, handled, lastResp,
                   limVars, seqVars, concVars, srvVars, mgrVars, enqCfg, streamVars, workerVars, outVars, retryVars, ctlVars>>

\* QueueService.getRequestStatus: GET response:<requestId>, parsed; null
\* (NoOutcome) when the key is absent.  The read changes nothing, so what a
\* status read returns at a moment is this value in the state of that moment.
getRequestStatus(t) == response[t]

(***************************************************************************)
(* The proxy router's layers, in the order they are registered, and the    *)
(* answer to GET /apis/status/<ticketId>.  A path is the sequence of its   *)
(* segments below /apis.                                                   *)
(***************************************************************************)
Layers == <<"proxy", "status">>

\* router.use("/:appId/*", ...), any method; router.get("/status/:requestId", ...)
Matches(layer, path) ==
    IF layer = "proxy"
    THEN Len(path) >= 2
    ELSE Len(path) = 2 /\ path[1] = "status"

\* the first registered layer that matches handles the request: the proxy
\* middleware answers or calls next(error), it never passes the request on
Dispatch(path) ==
    LET hits == {n \in DOMAIN Layers : Matches(Layers[n], path)}
    IN IF hits = {}
       THEN "none"
       ELSE Layers[CHOOSE n \in hits : \A m \in hits : n <= m]

\* the status handler: the stored outcome, or AppError(404) when there is none
statusHandler(t) ==
    IF getRequestStatus(t) = NoOutcome
    THEN [code |-> 404, body |-> "Request not found", data |-> NoOutcome]
    ELSE [code |-> 200, body |-> "success", data |-> getRequestStatus(t)]

\* the proxy middleware on a path whose first segment names no application
proxyUnknownApp == [code |-> 404, body |-> "Application not found", data |-> NoOutcome]

\* GET /apis/status/<t>, as the router answers it (application ids are made
\* by uuidv4(), none is "status")
statusGet(t) ==
    IF Dispatch(<<"status", t>>) = "status"
    THEN statusHandler(t)
    ELSE proxyUnknownApp

\* Date.now() at an append.  The id XADD * gives an entry is the store's
\* clock at the append; time on the stream is counted in appends.
Now == streamSeq + 1

\* a record appended to stream:<nodeId> under a new ticket (spec 4.6: "assign
\* a new ticket id, serialise the request record, append to this node's
\* stream")
StreamEnqueue ==
    /\ nextTicket <= MaxTickets
    /\ streamSeq < MaxEntries
    /\ stream' = Append(stream, [id |-> streamSeq + 1, ticket |-> nextTicket, ts |-> Now])
    /\ streamSeq' = streamSeq + 1
    /\ appended' = appended \cup {nextTicket}
    /\ issued' = issued \cup {nextTicket}
    /\ nextTicket' = nextTicket + 1
    /\ enqCfg' = [enqCfg EXCEPT ![nextTicket] = cfg]
    /\ UNCHANGED <<queue, loops, qsHeld, handled, lastResp,
                   lastDelivered, pel, acked,
                   limVars, seqVars, concVars, srvVars, mgrVars, workerVars, outVars, retryVars, ctlVars>>

(***************************************************************************)
(* The worker manager.                                                     *)
(***************************************************************************)
\* XPENDING stream group - + 1: the lowest pending id
OldestPending(p) == CHOOSE i \in {e[1] : e \in p} : \A e \in p : i <= e[1]

\* the id the tick will trim to (0: no trim): XPENDING is asked when XLEN
\* exceeds maxStreamLength, and names an id when an entry is pending
trimTarget(s, p) ==
    IF Len(s) > MaxStreamLength /\ p # {} THEN OldestPending(p) ELSE 0

\* XTRIM MINID with a slip: the entry of the given id goes too
xtrimMinId_Above(s, minid) == SelectSeq(s, LAMBDA e : e.id > minid)

\* XTRIM stream MINID minid: entries with ids below minid are removed
xtrimMinId(s, minid) == SelectSeq(s, LAMBDA e : e.id >= minid)

\* the trim of a tick, on the stream as it is when XTRIM arrives
trimStream(s, minid) == IF minid # 0 THEN xtrimMinId(s, minid) ELSE s

\* the ids no worker bears: a worker's id (worker:<Date.now()>) is its own;
\* in the model an id is free again once its worker has exited and the
\* consumer of that name is deleted
FreeIds == {w \in WorkerIds : wphase[w] = "new" /\ w \notin retiring}

\* fork process.js under a new worker id
spawnWorker ==
    \E w \in FreeIds :
        /\ \A o \in FreeIds : w <= o
        /\ wphase' = [wphase EXCEPT ![w] = "read"]
        /\ wmap' = Append(wmap, w)
        /\ UNCHANGED <<wterm, retiring, retryVars, ctlVars>>

\* this.workers.values().next().value: the first worker inserted
FirstWorker == Head(wmap)

\* kill the first worker of the map; this.workers.delete(worker.consumerId)
\* names no key of the map (its keys are worker ids), so the entry stays
\* until the worker's 'exit'; DELCONSUMER follows after 1 s
removeWorker ==
    /\ wterm' = [wterm EXCEPT ![FirstWorker] = TRUE]
    /\ retiring' = retiring \cup {FirstWorker}
    /\ UNCHANGED <<wphase, wmap, retryVars, ctlVars>>

\* the choice with a slip: a length equal to maxQueuedRequests spawns too
scaleChoice_AtThreshold(queueLength, currentWorkers) ==
    IF (queueLength >= MaxQueuedRequests \/ queueLength = 0) /\ currentWorkers < maxWorkers
    THEN "spawn"
    ELSE IF 2 * queueLength < MaxQueuedRequests /\ currentWorkers > 1
         THEN "remove"
         ELSE "none"

\* "Scale workers based on queue length": what the tick will do, by the
\* XLEN and the this.workers.size it read
scaleChoice(queueLength, currentWorkers) ==
    IF (queueLength > MaxQueuedRequests \/ queueLength = 0) /\ currentWorkers < maxWorkers
    THEN "spawn"
    ELSE IF 2 * queueLength < MaxQueuedRequests /\ currentWorkers > 1
         THEN "remove"
         ELSE "none"

\* the scaling of a tick
scaleWorkers(choice) ==
    IF choice = "spawn"
    THEN spawnWorker
    ELSE IF choice = "remove" /\ wmap # <<>>         \* if (worker)
         THEN removeWorker
         ELSE UNCHANGED <<wphase, wmap, wterm, retiring, retryVars, ctlVars>>

\* one tick of setInterval(() => this.manageWorkers(), 5000): it reads
\* this.workers.size, XLEN and, over the cap, XPENDING - + 1.  A tick that
\* has no trim to make goes on to the scaling; a tick that trims sends
\* XTRIM next, and other processes' commands may reach the store before it.
manageWorkers ==
    /\ mgr.pc = "idle"
    /\ IF trimTarget(stream, pel) = 0
       THEN /\ scaleWorkers(scaleChoice(Len(stream), Len(wmap)))
            /\ UNCHANGED mgr
       ELSE /\ mgr' = [pc |-> "trim", minid |-> trimTarget(stream, pel),
                       len |-> Len(stream), workers |-> Len(wmap)]
            /\ UNCHANGED <<wphase, wmap, wterm, retiring>>
    /\ UNCHANGED <<tasks, limVars, seqVars, concVars, srvVars, mgrVars, enqCfg, qsVars, streamVars, outVars, retryVars, ctlVars>>

\* the rest of a tick that trims: XTRIM MINID with the id read, then the
\* scaling on the length and the worker count read at the start
manageTrim ==
    /\ mgr.pc = "trim"
    /\ stream' = trimStream(stream, mgr.minid)
    /\ scaleWorkers(scaleChoice(mgr.len, mgr.workers))
    /\ mgr' = MgrIdle
    /\ UNCHANGED <<tasks, appended, streamSeq, lastDelivered, pel, acked,
                   limVars, seqVars, concVars, srvVars, mgrVars, enqCfg, qsVars, outVars, retryVars, ctlVars>>

\* removeWorker, after its 1 s: XGROUP DELCONSUMER drops the consumer and
\* its pending entries
DelConsumer(w) ==
    /\ w \in retiring
    /\ pel' = {e \in pel : e[2] # w}
    /\ retiring' = retiring \ {w}
    /\ UNCHANGED <<tasks, wphase, wterm, wmap, mgr, appended, stream, streamSeq,
                   lastDelivered, acked, limVars, seqVars, concVars, srvVars, mgrVars, enqCfg, qsVars, outVars, retryVars, ctlVars>>

(***************************************************************************)
(* The worker.                                                             *)
(***************************************************************************)
\* the positions of the entries the group has not delivered yet (">")
NewEntries == {i \in 1..Len(stream) : stream[i].id > lastDelivered}

TasksOf(w) == {t \in tasks : t.w = w}

\* Worker.processStream: XREADGROUP returns nothing within the block time;
\* the loop goes round, or ends when the worker is shutting down
WorkerReadEmpty(w) ==
    /\ wphase[w] = "read"
    /\ NewEntries = {}
    /\ wphase' = [wphase EXCEPT ![w] = IF wterm[w] THEN "end" ELSE "read"]
    /\ UNCHANGED <<tasks, wterm, wmap, retiring, mgr,
                   limVars, seqVars, concVars, srvVars, mgrVars, enqCfg, qsVars, streamVars, outVars, retryVars, ctlVars>>

\* Worker.processStream: XREADGROUP COUNT 3 ">" delivers the next entries;
\* they are pending for this consumer and each starts its processRequest
WorkerRead(w) ==
    /\ wphase[w] = "read"
    /\ NewEntries # {}
    /\ LET batch == {i \in NewEntries :
                        Cardinality({j \in NewEntries : j < i}) < BatchSize}
           last == CHOOSE i \in batch : \A j \in batch : j <= i
       IN /\ lastDelivered' = stream[last].id
          /\ pel' = pel \cup {<<stream[i].id, w>> : i \in batch}
          /\ tasks' = tasks \cup {[id |-> stream[i].id, ticket |-> stream[i].ticket,
                                   ts |-> stream[i].ts, w |-> w, st |-> "limit",
                                   out |-> NoOutcome, denied |-> FALSE,
                                   fetched |-> FALSE, copy |-> 0] :
                                      i \in batch}
    /\ wphase' = [wphase EXCEPT ![w] = "batch"]
    /\ UNCHANGED <<wterm, wmap, retiring, mgr, appended, stream, streamSeq, acked,
                   limVars, seqVars, concVars, srvVars, mgrVars, enqCfg, qsVars, outVars, retryVars, ctlVars>>

\* the record appended again as it was read, its timestamp not renewed
requeue_SameStamp(t, now) == [ticket |-> t.ticket, ts |-> t.ts]

\* JSON.stringify({...request, timestamp: Date.now()}): the record a denied
\* request is appended with
requeue(t, now) == [ticket |-> t.ticket, ts |-> now]

\* the deny branch going on to the fetch (no `return` after the XADD)
processRequestDenied_NoReturn(t) == [t EXCEPT !.st = "fetch"]

\* Worker.processRequest, deny branch: after the XADD, `return`; the XACK of
\* processStream is next
processRequestDenied(t) == [t EXCEPT !.st = "xack"]

\* Worker.processRequest after checkLimit, by its result.  Denied: the record
\* is appended again with a new timestamp.  Admitted: the fetch is next.  A
\* throw (no config, store error) goes to the catch, which records "failed".
processRequestLimited(t, res) ==
    IF res = "deny"
    THEN /\ streamSeq < MaxEntries
         /\ stream' = Append(stream, [id |-> streamSeq + 1,
                                      ticket |-> requeue(t, Now).ticket,
                                      ts |-> requeue(t, Now).ts])
         /\ streamSeq' = streamSeq + 1
         /\ appended' = appended \cup {t.ticket}
         /\ tasks' = (tasks \ {t}) \cup
                {processRequestDenied([t EXCEPT !.denied = TRUE,
                                                !.copy = streamSeq + 1])}
    ELSE /\ UNCHANGED <<stream, streamSeq, appended, retryVars, ctlVars>>
         /\ tasks' = (tasks \ {t}) \cup
                {IF res = "allow" THEN [t EXCEPT !.st = "fetch"]
                 ELSE [t EXCEPT !.st = "setex", !.out = Failed]}

\* Worker.processRequest up to the limiter's decision: HGET of the config,
\* checkLimit; the limiter's result is an input here
WorkerLimit(w) ==
    /\ \E t \in TasksOf(w), res \in {"throw", "deny", "allow"} :
         /\ t.st = "limit"
         /\ processRequestLimited(t, res)
    /\ UNCHANGED <<wphase, wterm, wmap, retiring, mgr, lastDelivered, pel, acked,
                   limVars, seqVars, concVars, srvVars, mgrVars, enqCfg, qsVars, outVars, retryVars, ctlVars>>

\* the config taken with a slip: the one in force when the record was
\* enqueued
loadConfig_Enqueued(stored, enqueued) == enqueued

\* JSON.parse(await this.redis.hget(`app:${request.appId}`, "rateLimit")):
\* the config the app has in the store when the message is processed
loadConfig(stored, enqueued) == stored

\* Worker.processRequest up to the limiter's decision, the limiter run on
\* the store: new RateLimiter(config, redis).checkLimit(appId), on the
\* counters the proxy's limiter uses.  The decision is logged with what the
\* stored and the enqueue-time config each give on the same counters.
WorkerCheckLimit(w) ==
    /\ \E t \in TasksOf(w) :
         /\ t.st = "limit"
         /\ LET d == Decide(loadConfig(cfg, enqCfg[t.ticket]), kv, clock)
            IN /\ processRequestLimited(t, IF d.admit THEN "allow" ELSE "deny")
               /\ kv' = d.store
               /\ decLog' = Append(decLog,
                      [t |-> clock, ok |-> d.admit, ticket |-> t.ticket,
                       stored |-> Decide(cfg, kv, clock).admit,
                       enqueued |-> Decide(enqCfg[t.ticket], kv, clock).admit,
                       changed |-> cfg # enqCfg[t.ticket]])
    /\ UNCHANGED <<wphase, wterm, wmap, retiring, mgr, lastDelivered, pel, acked,
                   clock, cfg, pattern, phase, concVars, srvVars, mgrVars, enqCfg,
                   qsVars, outVars, retryVars, ctlVars>>

\* the fetch with a slip: an answer that is not 2xx, or a throw, is tried again
processRequestFetched_Retry(t, code) ==
    IF code = 200
    THEN [t EXCEPT !.st = "setex", !.fetched = TRUE, !.out = Completed(code)]
    ELSE [t EXCEPT !.fetched = TRUE]

\* Worker.processRequest after its fetch: the answer, whatever its status,
\* is what SETEX will record as completed; a throw goes to the catch
processRequestFetched(t, code) ==
    [t EXCEPT !.st = "setex", !.fetched = TRUE,
              !.out = IF code = 0 THEN Failed ELSE Completed(code)]

\* Worker.processRequest: the fetch of the upstream
WorkerFetch(w) ==
    /\ \E t \in TasksOf(w), code \in UpstreamResults :
         /\ t.st = "fetch"
         /\ tasks' = (tasks \ {t}) \cup {processRequestFetched(t, code)}
         /\ fetches' = [fetches EXCEPT ![t.ticket] = Min(@ + 1, 2)]
    /\ UNCHANGED <<response, firstOutcome, wphase, wterm, wmap, retiring, mgr,
                   limVars, seqVars, concVars, srvVars, mgrVars, enqCfg, qsVars, streamVars, retryVars, ctlVars>>

\* the messages of a worker whose callback has not ended
Running(w) == {t \in TasksOf(w) : t.st # "thrown"}

\* Worker.processRequest: SETEX response:<id> 172800 <outcome>.  When the
\* SETEX of the try throws, the catch records "failed" with its own SETEX;
\* when the SETEX of the catch throws, processRequest ends as a rejection:
\* the XACK of processStream's callback is not reached, Promise.all rejects
\* and the loop goes round after 5 s (by then the other messages of the
\* batch have ended), or ends when the worker is shutting down
WorkerRecord(w) ==
    /\ \E t \in TasksOf(w), res \in {"ok", "caught", "thrown"} :
         /\ t.st = "setex"
         /\ res = "caught" => t.out # Failed
         /\ IF res = "thrown"
            THEN /\ tasks' = (tasks \ {t}) \cup {[t EXCEPT !.st = "thrown"]}
                 /\ wphase' = [wphase EXCEPT ![w] =
                                  IF Running(w) = {t}
                                  THEN (IF wterm[w] THEN "end" ELSE "read")
                                  ELSE @]
                 /\ UNCHANGED <<response, firstOutcome>>
            ELSE LET out == IF res = "caught" THEN Failed ELSE t.out
                 IN /\ response' = [response EXCEPT ![t.ticket] = out]
                    /\ firstOutcome' = [firstOutcome EXCEPT ![t.ticket] =
                                           IF @ = NoOutcome THEN out ELSE @]
                    /\ tasks' = (tasks \ {t}) \cup
                           {[t EXCEPT !.st = "xack", !.out = out]}
                    /\ UNCHANGED wphase
    /\ UNCHANGED <<fetches, wterm, wmap, retiring, mgr,
                   limVars, seqVars, concVars, srvVars, mgrVars, enqCfg, qsVars, streamVars, retryVars, ctlVars>>

\* Worker.processStream: XACK after processRequest; after the last message of
\* the batch (Promise.all) the loop goes round, or ends when shutting down
WorkerAck(w) ==
    /\ \E t \in TasksOf(w) :
         /\ t.st = "xack"
         /\ pel' = pel \ {<<t.id, w>>}
         /\ acked' = acked \cup {[id |-> t.id, ticket |-> t.ticket]}
         /\ tasks' = tasks \ {t}
         /\ wphase' = [wphase EXCEPT ![w] =
                          IF Running(w) = {t}
                          THEN (IF wterm[w] THEN "end" ELSE "read")
                          ELSE @]
    /\ UNCHANGED <<wterm, wmap, retiring, mgr, appended, stream, streamSeq, lastDelivered,
                   limVars, seqVars, concVars, srvVars, mgrVars, enqCfg, qsVars, outVars, retryVars, ctlVars>>

\* Worker.shutdown, after its 1 s: redis.quit(), process.exit(0); whatever
\* the worker was processing stops; the manager's 'exit' handler deletes the
\* worker from its map
WorkerExit(w) ==
    /\ wterm[w]
    /\ wphase[w] \in {"read", "batch", "end"}
    /\ wphase' = [wphase EXCEPT ![w] = "new"]
    /\ wterm' = [wterm EXCEPT ![w] = FALSE]
    /\ tasks' = tasks \ TasksOf(w)
    /\ wmap' = SelectSeq(wmap, LAMBDA o : o # w)
    /\ UNCHANGED <<retiring, mgr,
                   limVars, seqVars, concVars, srvVars, mgrVars, enqCfg, qsVars, streamVars, outVars, retryVars, ctlVars>>

(***************************************************************************)
(* The node as the sources wire it: the proxy handler enqueues through     *)
(* QueueService.enqueueRequest, the manager and the workers serve          *)
(* stream:<nodeId>.                                                        *)
(***************************************************************************)
InitNode ==
    /\ ConcIdle
    /\ NodeIdle
    /\ exec = ExecIdle
    /\ maxWorkers = MaxWorkers
    /\ kv = EmptyKv
    /\ decLog = <<>>
    /\ pattern = "node"
    /\ phase = 0
    /\ clock = 0
    /\ cfg = Cfg("fixed_window", 1, 1, 0, 0, 0)

NextNode ==
    \/ Tick
    \/ ProxyRequest
    \/ \E l \in Tickets : QsPick(l)
    \/ \E l \in Tickets : QsProcess(l)
    \/ manageWorkers
    \/ \E w \in WorkerIds : DelConsumer(w)
    \/ \E w \in WorkerIds : WorkerReadEmpty(w)
    \/ \E w \in WorkerIds : WorkerExit(w)

SpecNode == InitNode /\ [][NextNode]_vars

\* the event loops run every continuation that is ready, and the manager's
\* timer keeps firing; requests and status reads come as the clients please
NodeFairness ==
    /\ WF_vars(manageWorkers)
    /\ \A l \in Tickets : WF_vars(QsPick(l)) /\ WF_vars(QsProcess(l))
    /\ \A w \in WorkerIds :
         WF_vars(DelConsumer(w)) /\ WF_vars(WorkerReadEmpty(w)) /\ WF_vars(WorkerExit(w))

SpecNodeFair == SpecNode /\ NodeFairness

(***************************************************************************)
(* The manager and the workers serving a stream that records are appended  *)
(* to.                                                                     *)
(***************************************************************************)
NextStream ==
    \/ StreamEnqueue
    \/ manageWorkers
    \/ manageTrim
    \/ \E w \in WorkerIds : DelConsumer(w)
    \/ \E w \in WorkerIds : WorkerReadEmpty(w)
    \/ \E w \in WorkerIds : WorkerRead(w)
    \/ \E w \in WorkerIds : WorkerLimit(w)
    \/ \E w \in WorkerIds : WorkerFetch(w)
    \/ \E w \in WorkerIds : WorkerRecord(w)
    \/ \E w \in WorkerIds : WorkerAck(w)
    \/ \E w \in WorkerIds : WorkerExit(w)

SpecStream == InitNode /\ [][NextStream]_vars


(***************************************************************************)
(* Claims on the deferred path.                                            *)
(***************************************************************************)
HasOutcome(t) == response[t].status \in {"completed", "failed"}

\* C7: at-least-once delivery: under fair scheduling of the workers and the
\* manager's ticks, every ticket handed out in a 202 answer eventually has an
\* outcome "completed" or "failed" recorded under response:<ticketId>.
C7_AtLeastOnce == \A t \in Tickets : (t \in issued) ~> HasOutcome(t)

\* C8: outcome monotonicity: once a value is written under
\* response:<ticketId>, no later step of a worker writes a different value
\* for the ticket: at every moment after the write a status read returns the
\* value first written.
C8_OutcomeMonotone ==
    \A t \in Tickets :
        firstOutcome[t] # NoOutcome => getRequestStatus(t) = firstOutcome[t]

\* an outcome is recorded for a ticket that the limiter had denied before (its
\* record was appended again), while the worker that recorded it is still
\* busy with its batch
C8_Witness ==
    \E t \in Tickets :
        /\ HasOutcome(t)
        /\ getRequestStatus(t) = firstOutcome[t]
        /\ Cardinality({i \in 1..Len(stream) : stream[i].ticket = t}) >= 2
        /\ \E k \in tasks : k.ticket = t /\ k.st = "xack"

\* the deny branch of the proxy handler: one record enqueued, 202 "queued"
\* with the new ticket, no upstream call
C9_DenyBranch ==
    (lastResp.known /\ ~lastResp.allowed) =>
        /\ lastResp.status = 202
        /\ lastResp.body = "queued"
        /\ lastResp.ticket \in issued
        /\ lastResp.fresh
        /\ lastResp.enq = 1
        /\ lastResp.fwd = 0

\* C9 as stated: the deny branch, and no proxy request is ever answered 429.
C9_NeverRefused_Original ==
    /\ C9_DenyBranch
    /\ lastResp.status # 429

\* C9: whenever the limiter denies a request for an existing app, the handler
\* enqueues exactly one record, answers 202 "queued" with the new ticket and
\* makes no upstream call; a 429 is only ever the upstream's own answer,
\* relayed for an admitted request.
C9_NeverRefused ==
    /\ C9_DenyBranch
    /\ lastResp.status = 429 =>
            lastResp.known /\ lastResp.allowed /\ lastResp.fwd = 1 /\ lastResp.up = 429

\* a second request was denied and answered 202 with the second ticket
C9_Witness ==
    /\ lastResp.known /\ ~lastResp.allowed
    /\ lastResp.status = 202
    /\ lastResp.ticket = 2
    /\ Cardinality(queue) = 2

\* C10: every record the proxy handler enqueues is appended to
\* stream:<nodeId>, the stream the node's workers read.
C10_RecordOnStream == issued \subseteq appended

\* the ids of the entries in the stream, and of those a trim has removed
\* (XACK and DELCONSUMER leave the stream as it is)
StreamIds == {stream[i].id : i \in 1..Len(stream)}
TrimmedIds == (1..streamSeq) \ StreamIds
PendingIds == {e[1] : e \in pel}

C19_AckAfterRecord ==
    \A a \in acked :
        \/ HasOutcome(a.ticket)
        \/ \E i \in 1..Len(stream) :
              stream[i].ticket = a.ticket /\ stream[i].id > a.id

\* C20: worker deny path: when the limiter denies a deferred request at
\* processing time, the worker appends one copy of the record, with a
\* renewed timestamp and the same ticket, to the tail of the same stream,
\* makes no upstream call and writes no outcome; the acknowledgement of the
\* original entry is its next step.
C20_WorkerDenyPath ==
    \A k \in tasks :
        k.denied =>
            /\ k.st = "xack"
            /\ ~k.fetched
            /\ k.out = NoOutcome
            /\ k.copy > k.id
            /\ k.copy <= streamSeq
            /\ \A i \in 1..Len(stream) :
                  stream[i].id = k.copy =>
                      /\ stream[i].ticket = k.ticket
                      /\ stream[i].ts > k.ts
                      /\ stream[i].ts = stream[i].id

\* a worker was denied for a ticket, its copy is the last entry of the
\* stream, no outcome is recorded and the original is still pending
C20_Witness ==
    \E k \in tasks :
        /\ k.denied
        /\ k.st = "xack"
        /\ <<k.id, k.w>> \in pel
        /\ Len(stream) >= 2
        /\ stream[Len(stream)].id = k.copy
        /\ stream[Len(stream)].ticket = k.ticket
        /\ ~HasOutcome(k.ticket)

\* C16: unknown application: a proxy request whose app id has no app:<id>
\* record is answered 404 (not found); the limiter is not consulted for it,
\* no limiter key is written, nothing is enqueued, no ticket is handed out
\* and no upstream call is made.
C16_UnknownApp ==
    (lastResp.status # 0 /\ ~lastResp.known) =>
        /\ lastResp.status = 404
        /\ lastResp.body = "error"
        /\ ~lastResp.limited
        /\ ~lastResp.wrote
        /\ lastResp.enq = 0
        /\ lastResp.ticket = 0
        /\ lastResp.fwd = 0

\* a request for an unknown app is answered 404 after requests for the
\* existing app were admitted (a limiter key is set) and denied (a record is
\* queued)
C16_Witness ==
    /\ lastResp.status = 404
    /\ ~lastResp.known
    /\ handled = 3
    /\ kv # EmptyKv
    /\ Cardinality(queue) = 1

\* C11: pending status: a status read for a ticket that has no record under
\* response:<ticketId> (a ticket just handed out in a 202 answer) returns
\* {status: pending} and not an error.
C11_PendingStatus ==
    \A t \in issued :
        getRequestStatus(t) = NoOutcome =>
            /\ statusGet(t).code = 200
            /\ statusGet(t).body = "pending"

\* C12: the status route is served: a GET on /apis/status/<ticketId> for a
\* ticket whose outcome is recorded is handled by the status handler, not as
\* a proxy request for an application, and returns the stored outcome.
C12_StatusServed ==
    \A t \in Tickets :
        HasOutcome(t) =>
            /\ Dispatch(<<"status", t>>) = "status"
            /\ statusGet(t).code = 200
            /\ statusGet(t).data = getRequestStatus(t)

(***************************************************************************)
(* Server ids.  A node's startup takes a server id from the store          *)
(* (getAvailableServerId) before it starts its manager; the process-level  *)
(* shutdown (shutdownServer) closes the HTTP server, quits the store       *)
(* connection and then shuts the manager down, which is where the id is    *)
(* given back.                                                             *)
(***************************************************************************)
\* the branch of getAvailableServerId that creates an id, by the value INCR
\* server:counter returned, without the test against the ceiling
newServerId_NoCeiling(currentCount) ==
    [ok |-> TRUE, id |-> currentCount, error |-> "none"]

\* the branch of getAvailableServerId that creates an id, by the value INCR
\* server:counter returned
newServerId(currentCount) ==
    IF currentCount > MAX_SERVER_ID
    THEN [ok |-> FALSE, id |-> 0, error |-> "Maximum number of server IDs reached"]
    ELSE [ok |-> TRUE, id |-> currentCount, error |-> "none"]

\* startServer: getAvailableServerId; a throw ends the process (exit 1)
StartServer ==
    /\ pattern = "ids"
    /\ counter < MAX_SERVER_ID + MaxRefused
    /\ LET full == Cardinality(held) = MAX_SERVER_ID /\ pool = {}
           freed == gone \ held # {}
       IN IF pool # {}
          THEN \E id \in pool :          \* SPOP server:pool
                  /\ pool' = pool \ {id}
                  /\ held' = held \cup {id}
                  /\ everIssued' = everIssued \cup {id}
                  /\ lastStart' = [ok |-> TRUE, id |-> id, error |-> "none",
                                   pooled |-> TRUE, full |-> full, freed |-> freed]
                  /\ UNCHANGED counter
          ELSE LET r == newServerId(counter + 1)
               IN /\ counter' = counter + 1      \* INCR server:counter
                  /\ held' = IF r.ok THEN held \cup {r.id} ELSE held
                  /\ everIssued' = IF r.ok THEN everIssued \cup {r.id} ELSE everIssued
                  /\ lastStart' = [ok |-> r.ok, id |-> r.id, error |-> r.error,
                                   pooled |-> FALSE, full |-> full, freed |-> freed]
                  /\ UNCHANGED pool
    /\ UNCHANGED <<gone, limVars, seqVars, concVars, qsVars, streamVars, workerVars, outVars,
                   mgrVars, enqCfg, retryVars, ctlVars>>

\* WorkerManager.shutdown for the node holding `id`, on a connection that is
\* open or not: a command sent on a connection that was quit is rejected
\* ("Connection is closed."), the catch logs it and SADD is not reached
shutdown(p, id, open) == IF open THEN p \cup {id} ELSE p

\* shutdownServer with a slip: the manager's shutdown runs before quit()
shutdownServer_BeforeQuit(p, id) ==
    LET afterClose == TRUE
    IN shutdown(p, id, afterClose)

\* shutdownServer: server.close(), redis.quit(), workerManager.shutdown(),
\* in this order; the store's server:pool afterwards
shutdownServer(p, id) ==
    LET afterClose == TRUE       \* the connection when the HTTP server has closed
        afterQuit == FALSE       \* the connection when quit() has resolved
    IN shutdown(p, id, afterQuit)

\* SIGINT / SIGTERM at a running node, run to process.exit(0)
ShutdownServer(id) ==
    /\ pattern = "ids"
    /\ id \in held
    /\ Cardinality(gone) < MaxShutdowns
    /\ pool' = shutdownServer(pool, id)
    /\ held' = held \ {id}
    /\ gone' = gone \cup {id}
    /\ UNCHANGED <<counter, everIssued, lastStart,
                   limVars, seqVars, concVars, qsVars, streamVars, workerVars, outVars,
                   mgrVars, enqCfg, retryVars, ctlVars>>

InitIds ==
    /\ ConcIdle
    /\ NodeIdle
    /\ exec = ExecIdle
    /\ maxWorkers = MaxWorkers
    /\ kv = EmptyKv
    /\ decLog = <<>>
    /\ pattern = "ids"
    /\ phase = 0
    /\ clock = 0
    /\ cfg = Cfg("fixed_window", 1, 1, 0, 0, 0)

NextIds ==
    \/ StartServer
    \/ \E id \in ServerIds : ShutdownServer(id)

SpecIds == InitIds /\ [][NextIds]_vars

C14_ReleaseReuse ==
    /\ \A id \in gone : id \in pool \/ id \in held
    /\ lastStart.freed => lastStart.ok /\ lastStart.pooled

(***************************************************************************)
(* Claims on the manager's scaling, its trim and the stream's length.      *)
(***************************************************************************)
\* C29: acknowledged entries leave the stream: after a worker acknowledges
\* an entry, that entry is no longer part of the stream, so the length the
\* manager observes counts only entries that are undelivered or pending.
C29_AckedLeaveStream ==
    /\ \A a \in acked : a.id \notin StreamIds
    /\ \A i \in StreamIds : i > lastDelivered \/ i \in PendingIds

\* the workers in the manager's map, whose size is the count W of a tick
Counted(map) == {map[i] : i \in 1..Len(map)}

\* the step sends worker w its stop signal
Signalled(w) == ~wterm[w] /\ wterm'[w]

\* C26: retire protocol: retiring a worker sends that worker a stop signal,
\* removes that worker from the set the manager counts as W, and only after
\* the grace period deletes that worker's consumer from the group (the
\* pending list is as it was at the signal); a retire never happens when W
\* is 1 or less.
C26_RetireProtocol ==
    [][\A w \in WorkerIds :
          Signalled(w) =>
              /\ Len(wmap) > 1
              /\ w \notin Counted(wmap')
              /\ w \in retiring'
              /\ pel' = pel]_vars

\* the step is the scaling of a tick: a worker is spawned or signalled
TickScaled ==
    \/ Len(wmap') > Len(wmap)
    \/ \E w \in WorkerIds : Signalled(w)

\* C28: stream length cap: whenever a manager tick observes a stream length
\* above maxStreamLength, after that tick the stream length is at most
\* maxStreamLength unless reaching the cap would require removing a pending
\* entry, in which case every entry older than the oldest pending entry has
\* been removed.
C28_StreamCap ==
    [][/\ (mgr.pc = "idle" /\ mgr'.pc = "idle" /\ TickScaled
              /\ Len(stream) > MaxStreamLength) =>
             \/ Len(stream') <= MaxStreamLength
             \/ /\ pel # {}
                /\ \A i \in 1..Len(stream') : stream'[i].id >= OldestPending(pel)
       /\ (mgr.pc = "trim" /\ mgr'.pc = "idle") =>
             \/ Len(stream') <= MaxStreamLength
             \/ \A i \in 1..Len(stream') : stream'[i].id >= mgr.minid]_vars

\* the step removes the entry at position i of the stream
Trimmed(i) == \A j \in 1..Len(stream') : stream'[j].id # stream[i].id

\* C30: trim drops no unprocessed work: a trim never removes an entry that
\* has not yet been delivered to any consumer, and never removes an entry
\* that was delivered but has neither an outcome recorded nor a re-appended
\* copy, including entries whose consumer was deleted by a retire or
\* shutdown.
C30_TrimKeepsWork ==
    [][\A i \in 1..Len(stream) :
          Trimmed(i) =>
              /\ stream[i].id <= lastDelivered
              /\ \/ HasOutcome(stream[i].ticket)
                 \/ \E j \in 1..Len(stream) :
                       /\ stream[j].ticket = stream[i].ticket
                       /\ stream[j].id > stream[i].id]_vars

\* C22: at most one upstream attempt per ticket: over any run of the
\* deferred pipeline (repeated limiter denials and re-appends, worker
\* retirement and exceptions included) the upstream call for a given ticket
\* is performed at most once; its result, a non-2xx status recorded as
\* completed with that status code included, is never followed by a retry:
\* a message whose fetch returned goes on to the recording of that result
\* and the XACK, or ends on a SETEX that throws.
C22_OneUpstreamAttempt ==
    /\ \A t \in Tickets : fetches[t] <= 1
    /\ \A k \in tasks : k.fetched => k.st \in {"setex", "xack", "thrown"} /\ ~k.denied
    /\ \A t \in Tickets :
          response[t].status = "completed" => fetches[t] = 1

\* a ticket was denied and appended again, its copy was admitted and the
\* upstream answered 429: that is recorded as completed with 429, after one
\* call, and the entry is acknowledged
C22_Witness ==
    \E a \in acked, t \in Tickets :
        /\ a.ticket = t
        /\ \E b \in acked : b.ticket = t /\ b.id < a.id
        /\ response[t] = Completed(429)
        /\ fetches[t] = 1

\* a step of the message's processing raised an exception: the catch of
\* processRequest has taken it, or it has left processRequest
Raised(k) == k.out = Failed \/ k.st = "thrown"

\* C21: worker exception path: whenever a step of processing a delivered
\* entry raises an exception, a failed outcome is written under
\* response:<ticketId> and the entry is acknowledged, so no delivered entry
\* stays pending because of an exception: a message in which a step raised
\* is at the SETEX of its failed outcome or, that outcome written, at its
\* XACK.
C21_ExceptionPath ==
    \A k \in tasks :
        Raised(k) =>
            /\ k.st \in {"setex", "xack"}
            /\ k.st = "xack" => response[k.ticket] = Failed

\* the step ends a tick whose scaling acted, or a tick that trimmed
TickEnds ==
    \/ /\ mgr.pc = "idle"
       /\ mgr'.pc = "idle"
       /\ \/ Len(wmap') > Len(wmap)
          \/ \E w \in WorkerIds : wterm'[w] /\ ~wterm[w]
          \/ \E w \in WorkerIds : w \in retiring' /\ w \notin retiring
    \/ mgr.pc = "trim" /\ mgr'.pc = "idle"

\* the stream length and the worker count the ending tick had observed
ObservedL == IF mgr.pc = "trim" THEN mgr.len ELSE Len(stream)
ObservedW == IF mgr.pc = "trim" THEN mgr.workers ELSE Len(wmap)

\* C24: scaling rule: each manager tick, with observed stream length L and
\* worker count W, spawns exactly one worker if (L > maxQueuedRequests or
\* L = 0) and W < maxWorkers; otherwise retires exactly one worker (the
\* retire of removeWorker, on one worker of the map) if
\* L < maxQueuedRequests/2 and W > 1; otherwise changes nothing.  No tick
\* both spawns and retires, and no tick changes the worker count by more
\* than one.
C24_ScalingRule ==
    [][TickEnds =>
          IF (ObservedL > MaxQueuedRequests \/ ObservedL = 0) /\ ObservedW < maxWorkers
          THEN /\ Len(wmap') = Len(wmap) + 1
               /\ \A i \in 1..Len(wmap) : wmap'[i] = wmap[i]
               /\ wmap'[Len(wmap')] \notin Counted(wmap)
               /\ wterm' = wterm
               /\ retiring' = retiring
          ELSE IF 2 * ObservedL < MaxQueuedRequests /\ ObservedW > 1
               THEN /\ wmap' = wmap
                    /\ \E w \in Counted(wmap) :
                          /\ wterm' = [wterm EXCEPT ![w] = TRUE]
                          /\ retiring' = retiring \cup {w}
               ELSE /\ wmap' = wmap
                    /\ wterm' = wterm
                    /\ retiring' = retiring]_vars

\* ticks on an empty stream have spawned two workers, one each, and a third
\* tick, observing L = 0 and W = 2, has retired the first of them
C24_Witness ==
    /\ stream = <<>>
    /\ streamSeq = 0
    /\ Len(wmap) = 2
    /\ wterm[wmap[1]]
    /\ wmap[1] \in retiring
    /\ ~wterm[wmap[2]]

(***************************************************************************)
(* The manager with its timer: setInterval fires every 5 s whether or not  *)
(* the tick before has ended, so ticks suspended on a store call can       *)
(* overlap; and the node's shutdown.  The stream stays empty here.         *)
(***************************************************************************)
\* the timer fires: if (this.isShuttingDown) return; this.workers.size is
\* read; XLEN is sent and the tick is suspended on it
manageWorkersStart(k) ==
    /\ ~shut.begun
    /\ ticks[k] = NoTick
    /\ \A j \in Slots : j < k => ticks[j] # NoTick
    /\ ticks' = [ticks EXCEPT ![k] = Len(wmap)]
    /\ UNCHANGED <<maxWorkers, shut, enqCfg, limVars, seqVars, concVars, srvVars,
                   qsVars, streamVars, workerVars, outVars, retryVars, ctlVars>>

\* XLEN's reply: the rest of the tick, with the length read now and the
\* worker count read when the tick started
manageWorkersResume(k) ==
    /\ ticks[k] # NoTick
    /\ stream' = trimStream(stream, trimTarget(stream, pel))
    /\ scaleWorkers(scaleChoice(Len(stream), ticks[k]))
    /\ ticks' = [ticks EXCEPT ![k] = NoTick]
    /\ UNCHANGED <<maxWorkers, shut, enqCfg, tasks, mgr, appended, streamSeq,
                   lastDelivered, pel, acked,
                   limVars, seqVars, concVars, srvVars, qsVars, outVars, retryVars, ctlVars>>

\* WorkerManager.shutdown's loop over the map (kill, delete, await XGROUP
\* DELCONSUMER), on a connection that is open or not: on a connection that
\* was quit the first DELCONSUMER is rejected and the catch ends the loop
shutdownWorkers(map, open) ==
    IF open
    THEN [signalled |-> Counted(map), deleted |-> Counted(map), left |-> <<>>]
    ELSE IF map = <<>>
         THEN [signalled |-> {}, deleted |-> {}, left |-> <<>>]
         ELSE [signalled |-> {Head(map)}, deleted |-> {}, left |-> Tail(map)]

\* SIGINT / SIGTERM at the node, run to process.exit(0): server.close(),
\* redis.quit(), workerManager.shutdown().  The commands of the ticks still
\* suspended are rejected with the connection, and so are shutdown's
\* DELCONSUMER and SADD; the DELCONSUMER a removeWorker was waiting to send
\* goes with the process
ShutdownManager ==
    /\ ~shut.begun
    /\ LET afterQuit == FALSE       \* the connection when quit() has resolved
           r == shutdownWorkers(wmap, afterQuit)
       IN /\ shut' = [begun |-> TRUE, workers |-> Counted(wmap),
                      signalled |-> r.signalled, deleted |-> r.deleted]
          /\ wterm' = [w \in WorkerIds |-> wterm[w] \/ w \in r.signalled]
          /\ wmap' = r.left
          /\ pel' = {e \in pel : e[2] \notin r.deleted}
    /\ ticks' = [k \in Slots |-> NoTick]
    /\ retiring' = {}
    /\ UNCHANGED <<maxWorkers, enqCfg, tasks, wphase, mgr, appended, stream, streamSeq,
                   lastDelivered, acked,
                   limVars, seqVars, concVars, srvVars, qsVars, outVars, retryVars, ctlVars>>

InitMgr ==
    /\ ConcIdle
    /\ NodeIdle
    /\ exec = ExecIdle
    /\ maxWorkers \in 1..MaxWorkers
    /\ kv = EmptyKv
    /\ decLog = <<>>
    /\ pattern = "manager"
    /\ phase = 0
    /\ clock = 0
    /\ cfg = Cfg("fixed_window", 1, 1, 0, 0, 0)

NextMgr ==
    \/ \E k \in Slots : manageWorkersStart(k)
    \/ \E k \in Slots : manageWorkersResume(k)
    \/ ShutdownManager
    \/ \E w \in WorkerIds : DelConsumer(w)
    \/ \E w \in WorkerIds : WorkerReadEmpty(w)
    \/ \E w \in WorkerIds : WorkerExit(w)

SpecMgr == InitMgr /\ [][NextMgr]_vars

\* the worker processes that are running
Live == {w \in WorkerIds : wphase[w] # "new"}

\* C25: worker-count bound: in every reachable state of a node the number of
\* live worker processes spawned by its manager is at most maxWorkers,
\* including when a tick is still suspended on a store call while the next
\* timer tick starts.
C25_WorkerBound == Cardinality(Live) <= maxWorkers

\* C27: manager shutdown: once WorkerManager.shutdown has begun no new
\* worker is spawned by this manager, even by a scaling tick that was
\* already in progress (the workers running are among those of the map
\* when shutdown began), and when shutdown has completed every worker the
\* manager had spawned has been sent a stop signal and its consumer has
\* been deleted from the group.
C27_ManagerShutdown ==
    shut.begun =>
        /\ Live \subseteq shut.workers
        /\ shut.signalled = shut.workers
        /\ shut.deleted = shut.workers

(***************************************************************************)
(* The workers with the limiter run on the store, and the app's config     *)
(* updated while records wait in the stream.  The messages are followed    *)
(* up to the limiter's decision.                                           *)
(***************************************************************************)
\* the rate-limit configs the app is given
ReloadConfigs == {Cfg("fixed_window", 1, 1, 0, 0, 0), Cfg("fixed_window", 1, 2, 0, 0, 0)}

\* PUT /apps/:appId with a rateLimit: HSET app:<id> rateLimit <json>
UpdateConfig ==
    /\ \E c \in ReloadConfigs : c # cfg /\ cfg' = c
    /\ UNCHANGED <<clock, kv, seqVars, concVars, nodeVars, retryVars, ctlVars>>

InitReload ==
    /\ ConcIdle
    /\ NodeIdle
    /\ exec = ExecIdle
    /\ maxWorkers = MaxWorkers
    /\ kv = EmptyKv
    /\ decLog = <<>>
    /\ pattern = "reload"
    /\ phase = 0
    /\ clock = 0
    /\ cfg \in ReloadConfigs

NextReload ==
    \/ StreamEnqueue
    \/ UpdateConfig
    \/ manageWorkers
    \/ manageTrim
    \/ \E w \in WorkerIds : WorkerReadEmpty(w)
    \/ \E w \in WorkerIds : WorkerRead(w)
    \/ \E w \in WorkerIds : WorkerCheckLimit(w)

SpecReload == InitReload /\ [][NextReload]_vars

OrDefault(v, d) == IF v = 0 THEN d ELSE v

\* the clusterConfig values an application's stored rateLimit may carry
ClusterConfigs == [maxRetries : {-1, 0, 1, 2}, timeout : {0, MsPerSec}]

\* a strategy tag the switch of checkLimit has no case for, and the config
\* parsed from "{}" when app:<id> has no rateLimit field
InvalidConfigs == {Cfg("round_robin", 1, 1, 0, 0, 0), NoConfig}

RetryConfigs == {c \in ConcConfigs : c.requests = 1} \cup InvalidConfigs

\* the errors a store command is refused with
StoreErrors == {"MOVED", "ASK", "ECONNRESET"}

\* isClusterError: error.message.includes("MOVED") || ... includes("ASK")
isClusterError(e) == e \in {"MOVED", "ASK"}

\* new RateLimiter(config, redis), and the entry of executeWithRetry
RateLimiterNew(cluster) ==
    [ExecIdle EXCEPT !.pc = "try", !.cluster = cluster,
                     !.maxRetries = OrDefault(cluster.maxRetries, DefaultMaxRetries),
                     !.timeout = OrDefault(cluster.timeout, DefaultTimeout)]

\* the loop test with a slip: one attempt more
retryAllowed_Inclusive(retries, maxRetries) == retries <= maxRetries

\* while (retries < this.maxRetries)
retryAllowed(retries, maxRetries) == retries < maxRetries

\* if (this.isClusterError(error)) { retries++; ...; continue; } throw error
retryError(e) == isClusterError(e)

\* a handler calls checkLimit; a call begins only while the pauses of its
\* retries fit in the horizon of the model
CheckLimitBegin ==
    /\ exec.pc \in {"idle", "done"}
    /\ exec.calls < MaxCalls
    /\ clock + RetryHorizonMs <= Max(HorizonMs, RetryHorizonMs)
    /\ exec' = [RateLimiterNew(exec.cluster) EXCEPT !.calls = exec.calls + 1]
    /\ UNCHANGED <<limVars, seqVars, concVars, nodeVars, ctlVars>>

\* return await operation(): the switch over the strategy tag throws before
\* any command is sent; else the strategy runs, or the store refuses its
\* first command with the error e
ExecAttempt(e) ==
    /\ exec.pc = "try"
    /\ retryAllowed(exec.retries, exec.maxRetries)
    /\ IF cfg.strategy \notin Strategies
       THEN /\ e = "none"
            /\ exec' = [exec EXCEPT !.attempts = @ + 1, !.pc = "done",
                                    !.result = "AppError400"]
            /\ UNCHANGED kv
       ELSE IF e = "none"
       THEN LET d == Decide(cfg, kv, clock)
            IN /\ kv' = d.store
               /\ exec' = [exec EXCEPT !.attempts = @ + 1, !.sent = @ + 1, !.pc = "done",
                                       !.result = IF d.admit THEN "true" ELSE "false"]
       ELSE /\ UNCHANGED kv
            /\ exec' = IF retryError(e)
                       THEN [exec EXCEPT !.attempts = @ + 1, !.sent = @ + 1,
                                         !.retries = @ + 1, !.pc = "pause"]
                       ELSE [exec EXCEPT !.attempts = @ + 1, !.sent = @ + 1,
                                         !.pc = "done", !.result = "rethrown"]
    /\ UNCHANGED <<clock, cfg, seqVars, concVars, nodeVars, ctlVars>>

\* await new Promise((resolve) => setTimeout(resolve, this.timeout))
ExecPause ==
    /\ exec.pc = "pause"
    /\ clock' = clock + exec.timeout
    /\ kv' = ExpireKeys(kv, clock')
    /\ exec' = [exec EXCEPT !.waited = @ + exec.timeout, !.pc = "try"]
    /\ UNCHANGED <<cfg, seqVars, concVars, nodeVars, ctlVars>>

\* throw new AppError(500, `Operation failed after ${retries} retries: ...`)
ExecFail ==
    /\ exec.pc = "try"
    /\ ~retryAllowed(exec.retries, exec.maxRetries)
    /\ exec' = [exec EXCEPT !.pc = "done", !.result = "AppError500"]
    /\ UNCHANGED <<limVars, seqVars, concVars, nodeVars, ctlVars>>

InitRetry ==
    /\ NodeIdle
    /\ ConcIdle
    /\ maxWorkers = MaxWorkers
    /\ kv = EmptyKv
    /\ decLog = <<>>
    /\ pattern = "retry"
    /\ phase = 0
    /\ clock = 0
    /\ cfg \in RetryConfigs
    /\ \E cc \in ClusterConfigs :
          /\ cfg = NoConfig => cc = NoCluster
          /\ exec = [ExecIdle EXCEPT !.cluster = cc]

NextRetry ==
    \/ CheckLimitBegin
    \/ \E e \in StoreErrors \cup {"none"} : ExecAttempt(e)
    \/ ExecPause
    \/ ExecFail

SpecRetry == InitRetry /\ [][NextRetry]_vars

\* the bound and the pause the claim names for the configured clusterConfig
ClaimedRetries == IF exec.cluster.maxRetries = 0 THEN 3 ELSE exec.cluster.maxRetries
ClaimedTimeout == IF exec.cluster.timeout = 0 THEN 5000 ELSE exec.cluster.timeout

(***************************************************************************)
(* C31  Bounded retry of cluster-redirect errors: a call of checkLimit     *)
(* makes at most maxRetries attempts (3 when the configured value is 0 or  *)
(* unset; none when it is negative), each attempt refused with MOVED or    *)
(* ASK is followed by a pause of `timeout` (5000 ms when unset), the call  *)
(* whose attempts were all refused so fails with a 500 error, and an       *)
(* attempt that succeeds is the call's last and its result is returned.    *)
(***************************************************************************)
C31_BoundedRetry ==
    /\ exec.attempts <= Max(0, ClaimedRetries)
    /\ exec.pc # "pause" => exec.waited = exec.retries * ClaimedTimeout
    /\ exec.pc = "pause" => exec.waited = (exec.retries - 1) * ClaimedTimeout
    /\ exec.pc = "done" /\ exec.attempts = exec.retries =>
          /\ exec.result = "AppError500"
          /\ exec.retries = Max(0, ClaimedRetries)
    /\ exec.result \in {"true", "false"} =>
          /\ exec.pc = "done"
          /\ exec.attempts = exec.retries + 1

\* the default bound was used up by redirects: three attempts, three pauses
\* of 5 s, then the 500
C31_Witness ==
    /\ exec.pc = "done"
    /\ exec.cluster.maxRetries = 0
    /\ exec.cluster.timeout = 0
    /\ exec.result = "AppError500"
    /\ exec.attempts = 3
    /\ exec.waited = 15000

(***************************************************************************)
(* C32  Non-transient errors are not retried: an error that is not a       *)
(* cluster redirect leaves checkLimit from the attempt that raised it, and *)
(* with a config whose strategy tag is none of the five a call ends with   *)
(* the 400 error of its first attempt, no command having reached the       *)
(* store.                                                                  *)
(***************************************************************************)
C32_NoRetryOfOthers ==
    /\ exec.result = "rethrown" => exec.attempts = exec.retries + 1
    /\ cfg.strategy \notin Strategies /\ exec.pc = "done" =>
          /\ exec.result = "AppError400"
          /\ exec.attempts = 1
          /\ exec.sent = 0
          /\ kv = EmptyKv

(***************************************************************************)
(* C33  Deny has no effect on limiter state: in each strategy, the read    *)
(* of a decision that comes out as deny writes to no limiter key (values   *)
(* and expiry times are as before it), and the decision's UNWATCH writes   *)
(* nothing and leaves its connection with no watch.                        *)
(***************************************************************************)
C33_DenyNoEffect ==
    [][\A p \in Procs :
          /\ pc[p] = "read" /\ pc'[p] = "unwatch" => kv' = kv
          /\ pc[p] = "unwatch" /\ pc'[p] = "idle" =>
                kv' = kv /\ watch'[connOf[p]] = {}]_vars

(***************************************************************************)
(* The concurrent decisions with their scheduling: a handler suspended on  *)
(* a store command goes on when the reply arrives, so no decision waits    *)
(* for ever at a step it can take.                                         *)
(***************************************************************************)
ProcStep(p) ==
    Watch(p) \/ ReadGet(p) \/ ReadExec(p) \/ Unwatch(p) \/ CommitExec(p)

ConcFairness == \A p \in Procs : WF_vars(ProcStep(p))

\* const now = Date.now(), for the decisions followed to their return
BeginLoop(p) == started < MaxLoopDec /\ Begin(p)

NextConcFair ==
    \/ \E p \in Procs : BeginLoop(p)
    \/ \E p \in Procs : Watch(p)
    \/ \E p \in Procs : ReadGet(p)
    \/ \E p \in Procs : ReadExec(p)
    \/ \E p \in Procs : Unwatch(p)
    \/ \E p \in Procs : CommitExec(p)
    \/ ConcTick

SpecConcFair == InitConc /\ [][NextConcFair]_vars /\ ConcFairness

\* the commit of p's decision is refused and its loop goes round again
CommitAborts(p) == pc[p] = "commit" /\ pc'[p] = "watch"

\* every decision that was begun returns
Terminates == \A p \in Procs : (pc[p] # "idle") ~> (pc[p] = "idle")

\* C34 as stated: a refused commit has a write to the decision's keys made
\* since the decision's read, and every decision returns
C34_CommitLoopProgress_Original ==
    /\ [][\A p \in Procs :
             CommitAborts(p) => SumVer(kver, WatchKeys(cfg, pnow[p])) # pver[p]]_vars
    /\ Terminates

(***************************************************************************)
(* C34  Progress of the optimistic-commit loop: whenever a decision's      *)
(* commit is refused, a key watched on its connection was written by a     *)
(* batch of another connection, or reached its TTL, since the connection's *)
(* watches were last forgotten (by an EXEC or an UNWATCH on it), whether   *)
(* before or after the decision's read; and every decision returns admit   *)
(* or deny after finitely many rounds once such events have ceased.        *)
(***************************************************************************)
C34_CommitLoopProgress ==
    /\ [][\A p \in Procs : CommitAborts(p) => cause[connOf[p]] # {}]_vars
    /\ Terminates

\* a decision whose commit was refused has gone round again and returned
C34_Witness == \E p \in Procs : retried[p] /\ pc[p] = "idle"

(***************************************************************************)
(* The limiter's store as it would be had no key ever expired: the         *)
(* decisions of the history run one after the other on a store that only   *)
(* the decisions' own commands change.                                     *)
(***************************************************************************)
RECURSIVE KeptStore(_)
KeptStore(i) ==
    IF i = 0 THEN EmptyKv
    ELSE Decide(cfg, KeptStore(i - 1), decLog[i].t).store

\* the TTL the strategy of c puts on the key it writes, in ms
TtlMs(c) ==
    MsPerSec * (CASE c.strategy = "fixed_window" -> fixedWindowTtl(c)
                  [] c.strategy = "sliding_window" -> slidingWindowTtl(c)
                  [] c.strategy = "token_bucket" -> tokenBucketTtl(c)
                  [] c.strategy = "leaky_bucket" -> leakyBucketTtl(c)
                  [] c.strategy = "sliding_log" -> slidingLogTtl(c))

(***************************************************************************)
(* C35  TTL expiry is decision-neutral: in every strategy and for every    *)
(* sequence of decision times, each decision taken on the store whose keys *)
(* expire at their TTLs gives the result the same decision gives on the    *)
(* store on which no key ever expired.                                     *)
(***************************************************************************)
C35_TtlNeutral ==
    \A i \in DOMAIN decLog :
        decLog[i].ok = Decide(cfg, KeptStore(i - 1), decLog[i].t).admit

\* a decision was taken when the key written by the last admit before it had
\* run out of its TTL: the store it read had lost that key
C35_Witness ==
    \E i, j \in DOMAIN decLog :
        /\ i < j
        /\ decLog[i].ok
        /\ \A k \in (i + 1)..(j - 1) : ~decLog[k].ok
        /\ decLog[j].t - decLog[i].t >= TtlMs(cfg)

\* the admits with a time in the W-length interval beginning at lo, its two
\* ends included
AdmitsWithin(lo) ==
    Cardinality({n \in Admits : lo <= decLog[n].t /\ decLog[n].t <= lo + WindowMs(cfg)})

(***************************************************************************)
(* C36  Fixed-window boundary bound: with decisions taken one at a time    *)
(* under a fixed_window config with requests = N and window = W, every     *)
(* interval of length W, aligned to a window boundary or not, holds at     *)
(* most 2N admits.                                                         *)
(***************************************************************************)
C36_BoundaryBound ==
    cfg.strategy = "fixed_window" =>
        \A i \in Admits : AdmitsWithin(decLog[i].t) <= 2 * cfg.requests

\* an interval that begins inside a window holds 2N admits: N at the end of
\* one window and N at the start of the next
C36_Witness ==
    /\ cfg.strategy = "fixed_window"
    /\ \E i \in Admits :
          /\ decLog[i].t % WindowMs(cfg) # 0
          /\ AdmitsIn(decLog[i].t, decLog[i].t + WindowMs(cfg)) = 2 * cfg.requests

(***************************************************************************)
(* Node processes starting and stopping concurrently on one store          *)
(* (index.ts startServer / shutdownServer, WorkerManager                   *)
(* getAvailableServerId / shutdown).  Each store command is a step of its  *)
(* own, so the commands of different processes interleave.  A process that *)
(* has run its shutdown sequence up to process.exit is still alive, and so *)
(* may be the workers it forked.                                           *)
(***************************************************************************)
\* getAvailableServerId: SPOP server:pool; an id, or nil and the INCR follows
BootSpop(n) ==
    /\ boot[n].st = "down"
    /\ counter < MaxBoots
    /\ IF pool # {}
       THEN \E id \in pool :
               /\ pool' = pool \ {id}
               /\ boot' = [boot EXCEPT ![n] = [st |-> "up", id |-> id]]
       ELSE /\ boot' = [boot EXCEPT ![n] = [st |-> "incr", id |-> 0]]
            /\ UNCHANGED pool
    /\ UNCHANGED <<counter, held, gone, everIssued, lastStart, apps, appResp,
                   limVars, seqVars, concVars, qsVars, streamVars, workerVars, outVars,
                   mgrVars, enqCfg, retryVars>>

\* getAvailableServerId: INCR server:counter and the test against the
\* ceiling; a throw ends the process (exit 1)
BootIncr(n) ==
    /\ boot[n].st = "incr"
    /\ counter' = counter + 1
    /\ LET r == newServerId(counter + 1)
       IN boot' = [boot EXCEPT ![n] =
                      IF r.ok THEN [st |-> "up", id |-> r.id] ELSE NodeDown]
    /\ UNCHANGED <<pool, held, gone, everIssued, lastStart, apps, appResp,
                   limVars, seqVars, concVars, qsVars, streamVars, workerVars, outVars,
                   mgrVars, enqCfg, retryVars>>

\* SIGINT / SIGTERM: shutdownServer up to its last await
BootShutdown(n) ==
    /\ boot[n].st = "up"
    /\ pool' = shutdownServer(pool, boot[n].id)
    /\ boot' = [boot EXCEPT ![n].st = "exiting"]
    /\ UNCHANGED <<counter, held, gone, everIssued, lastStart, apps, appResp,
                   limVars, seqVars, concVars, qsVars, streamVars, workerVars, outVars,
                   mgrVars, enqCfg, retryVars>>

\* process.exit(0)
BootExit(n) ==
    /\ boot[n].st = "exiting"
    /\ boot' = [boot EXCEPT ![n] = NodeDown]
    /\ UNCHANGED <<counter, pool, held, gone, everIssued, lastStart, apps, appResp,
                   limVars, seqVars, concVars, qsVars, streamVars, workerVars, outVars,
                   mgrVars, enqCfg, retryVars>>

InitBoot ==
    /\ ConcIdle
    /\ NodeIdle
    /\ exec = ExecIdle
    /\ maxWorkers = MaxWorkers
    /\ kv = EmptyKv
    /\ decLog = <<>>
    /\ pattern = "boot"
    /\ phase = 0
    /\ clock = 0
    /\ cfg = Cfg("fixed_window", 1, 1, 0, 0, 0)

NextBoot ==
    \/ \E n \in Nodes : BootSpop(n)
    \/ \E n \in Nodes : BootIncr(n)
    \/ \E n \in Nodes : BootShutdown(n)
    \/ \E n \in Nodes : BootExit(n)

SpecBoot == InitBoot /\ [][NextBoot]_vars

\* the node processes that hold a server id
Alive(n) == boot[n].st \in {"up", "exiting"}

(***************************************************************************)
(* C37  Node-id exclusivity: over any interleaving of the commands of      *)
(* concurrent startups and shutdowns, no two node processes alive at the   *)
(* same time hold the same server id, so stream:<id> and group:<id> are    *)
(* those of one live node only.                                            *)
(***************************************************************************)
C37_NodeIdExclusive ==
    \A m, n \in Nodes : m # n /\ Alive(m) /\ Alive(n) => boot[m].id # boot[n].id

\* two nodes serve while a third, started with them, is past its shutdown
\* sequence and a fourth id has been created
C37_Witness ==
    /\ \E m, n \in Nodes : m # n /\ boot[m].st = "up" /\ boot[n].st = "up"
    /\ \E k \in Nodes : boot[k].st = "exiting"
    /\ counter = MaxBoots

(***************************************************************************)
(* The apps routes (routes/apps.ts): POST /apps creates app:<uuid> with    *)
(* the body's rateLimit, PUT /apps/:appId overwrites the fields the body   *)
(* carries.  The caller is authenticated and owns the apps; name and       *)
(* baseUrl are present in a POST.  Numbers of a body are followed by their *)
(* sign, a missing number being 0 (both are falsy).                        *)
(***************************************************************************)
\* a body without a rateLimit field
NoRateLimit == Cfg("undefined", 0, 0, 0, 0, 0)

\* the rateLimit objects a client sends: every strategy of the engine and a
\* tag it does not know, window and requests negative, missing or positive
BodyStrategies == Strategies \cup {"round_robin"}
BodyNumbers == {-1, 0, 1}
AppBodies ==
    {Cfg(s, w, n, 0, 0, 0) : s \in BodyStrategies, w \in BodyNumbers, n \in BodyNumbers}
    \cup {NoConfig, NoRateLimit}

\* the strategies POST /apps lets through
PostStrategies == {"fixed_window", "sliding_window", "token_bucket"}

\* !x of a number
Falsy(x) == x = 0

\* the validation of POST /apps: the status of its AppError, 0 when it passes
postValidate(b) ==
    IF b = NoRateLimit THEN 400
    ELSE IF b.strategy \notin PostStrategies THEN 400
    ELSE IF Falsy(b.requests) \/ Falsy(b.window) THEN 400
    ELSE 0

\* POST /apps with rateLimit b; the uuid is an id with no hash yet
PostApp(a, b) ==
    /\ apps[a] = NoApp
    /\ LET status == postValidate(b)
       IN IF status = 0
          THEN /\ apps' = [apps EXCEPT ![a] = b]
               /\ appResp' = [op |-> "POST", id |-> a, body |-> b, status |-> 201,
                              wrote |-> TRUE]
          ELSE /\ appResp' = [op |-> "POST", id |-> "none", body |-> b,
                              status |-> status, wrote |-> FALSE]
               /\ UNCHANGED apps
    /\ UNCHANGED <<limVars, seqVars, concVars, nodeVars, retryVars, boot>>

\* PUT /apps/:appId with rateLimit b (or none): 404 unless the id is one of
\* the user's apps, else HSET of the fields present
PutApp(a, b) ==
    /\ IF apps[a] = NoApp
       THEN /\ appResp' = [op |-> "PUT", id |-> a, body |-> b, status |-> 404,
                           wrote |-> FALSE]
            /\ UNCHANGED apps
       ELSE /\ apps' = [apps EXCEPT ![a] = IF b # NoRateLimit THEN b ELSE @]
            /\ appResp' = [op |-> "PUT", id |-> a, body |-> b, status |-> 200,
                           wrote |-> (b # NoRateLimit)]
    /\ UNCHANGED <<limVars, seqVars, concVars, nodeVars, retryVars, boot>>

InitApps ==
    /\ ConcIdle
    /\ NodeIdle
    /\ exec = ExecIdle
    /\ maxWorkers = MaxWorkers
    /\ kv = EmptyKv
    /\ decLog = <<>>
    /\ pattern = "apps"
    /\ phase = 0
    /\ clock = 0
    /\ cfg = Cfg("fixed_window", 1, 1, 0, 0, 0)

NextApps ==
    \/ \E a \in AppIds, b \in AppBodies : PostApp(a, b)
    \/ \E a \in AppIds, b \in AppBodies : PutApp(a, b)

SpecApps == InitApps /\ [][NextApps]_vars

\* a config the engine can run: a tag of checkLimit's switch, positive
\* window and requests
WellFormed(c) == c.strategy \in Strategies /\ c.window > 0 /\ c.requests > 0

\* a body that carries a config, and not a well-formed one
Malformed(b) == b # NoRateLimit /\ ~WellFormed(b)

(***************************************************************************)
(* C38  Stored configs are well-formed: after any sequence of creates and  *)
(* updates, the rateLimit stored under every app:<id> has a strategy the   *)
(* engine accepts and positive window and requests; an operation carrying  *)
(* a malformed config is answered with a client error and writes nothing.  *)
(***************************************************************************)
C38_StoredWellFormed ==
    /\ \A a \in AppIds : apps[a] # NoApp => WellFormed(apps[a])
    /\ appResp.op # "none" /\ Malformed(appResp.body) =>
          /\ appResp.status \in 400..499
          /\ ~appResp.wrote

====
